---- MODULE Spec2Model ----
(***************************************************************************)
(* The Readline engine of terminal_async (readline.rs): the LineMonitor    *)
(* task (spawn_task_to_monitor_line_channel), the pause/resume buffer      *)
(* (process_line_control_signal, flush_internal), the readline() select    *)
(* loop, and the shutdown broadcast.                                       *)
(*                                                                         *)
(* Every step between two lock operations of the code is one action; the   *)
(* two tasks are suspended only at their select! (monPc = "await",         *)
(* rlPc = "await").  Spec runs them on the current-thread runtime (the one *)
(* #[tokio::test] gives the tests): a task that left its await point runs  *)
(* to its next await point before anything else runs.                      *)
(***************************************************************************)
EXTENDS Integers, Sequences, FiniteSets, TLC

\* ------------------------------------------------------------------------
\* Bounds of the model.
MaxLines == 3           \* Line signals sent by the SharedWriter (payloads 1..MaxLines)
MaxCtl == 2             \* Pause / Resume / Flush signals sent
MaxInputs == 1          \* items the input stream yields
MaxFaults == 1          \* failing terminal operations
ChannelCapacity == 1    \* CHANNEL_CAPACITY of the bounded line channel
MaxKeys == 3            \* items the input stream yields in the keyboard runs
MaxHistAdds == 2        \* add_history_entry calls
HistorySizeMax == 2     \* HISTORY_SIZE_MAX, the default History.max_size
MaxPushes == 2          \* SafeListManager::push calls
MaxCalls == 1           \* update_prompt / clear / should_print_line_on calls

VARIABLES
    runtime,      \* "current_thread" | "multi_thread": the tokio runtime the tasks run on
    life,         \* the Readline instance: "none" | "alive" | "closed" (close() was
                  \* called on it) | "failed" (new returned Err) | "dropped"
    rawMode,      \* terminal raw mode (process global)
    paused,       \* safe_is_paused
    pauseBuffer,  \* safe_is_paused_buffer: FIFO of payloads
    line,         \* safe_line_state.line
    term,         \* safe_raw_terminal: everything written to the sink, in order
    lineChan,     \* the bounded mpsc line channel (signals in flight)
    writerAlive,  \* the SharedWriter (the channel's sender) has not been dropped
    rxOpen,       \* line_receiver is neither closed nor dropped
    monShut,      \* a shutdown message waits in the monitor's broadcast receiver
    rlShut,       \* a shutdown message waits in readline()'s broadcast receiver
    monPc,        \* position of the LineMonitor task
    monSig,       \* the signal the monitor is processing
    monBuf,       \* `buf` popped by flush_internal's while-let
    monFlow,      \* what process_line_control_signal returned last
    rlPc,         \* position of the readline() call
    rlItem,       \* the input stream item readline() is processing
    rlResult,     \* what the last readline() call returned
    mutex,        \* holder of each std Mutex: "free" | "mon" | "rl"
    nextLine,     \* payload of the next Line signal (counts Line signals sent)
    ctlSent,      \* control signals sent
    inputsLeft,   \* input stream items not yet yielded
    faults,       \* terminal operations that failed so far
    keys,         \* the items the input stream has yielded, in order
    histChan,     \* the unbounded history channel (entries in flight)
    history,      \* safe_history.entries, newest first
    maxSize,      \* safe_history.max_size
    histAdds,     \* add_history_entry calls made
    cursor,       \* History's navigation cursor: 0 = no selection, k = k-th newest
    wrResult,     \* what the SharedWriter's last write or flush returned
    lineCfg,      \* safe_line_state: prompt, should_print_line_on_enter / _control_c
    calls,        \* update_prompt / clear / should_print_line_on calls made
    list,         \* SafeListManager.list: the Vec behind the RwLock
    listHeld,     \* tasks holding the RwLock (readers, or one writer)
    listWait,     \* tasks queued for the RwLock, first come first
    listPc,       \* per task: position in push / clear / an iterate_over_vec_* macro
    listOp,       \* per task: the operation in progress
    itIdx,        \* per iterating task: index of list_r.iter()
    itSeen,       \* per iterating task: the items its callback was called with
    itSnap,       \* per iterating task: the list when its read lock was granted
    itResults,    \* per iterating task: $results of iterate_over_vec_with_results_async
    pushes        \* push calls made (the k-th pushes item k)

vars == <<runtime, life, rawMode, paused, pauseBuffer, line, term, lineChan, writerAlive,
          rxOpen, monShut, rlShut, monPc, monSig, monBuf, monFlow, rlPc, rlItem, rlResult,
          mutex, nextLine, ctlSent, inputsLeft, faults, keys, histChan, history,
          maxSize, histAdds, cursor, wrResult, lineCfg, calls, list, listHeld, listWait,
          listPc, listOp, itIdx, itSeen, itSnap, itResults, pushes>>

\* The SafeListManager (src/redux/async_list_manager.rs) and the tasks using it.
listVars == <<list, listHeld, listWait, listPc, listOp, itIdx, itSeen, itSnap, itResults,
              pushes>>

\* The LineState's settings and the count of the calls that change or redraw them.
cfgVars == <<lineCfg, calls>>

\* The History and its channel.
histVars == <<histChan, history, maxSize, histAdds, cursor>>

\* ------------------------------------------------------------------------
\* Values.
Mutexes == {"paused", "buffer", "lineState", "term", "history"}

Sig(t, b) == [type |-> t, buf |-> b]
NoSig == Sig("none", 0)

Tok(k, v) == [k |-> k, v |-> v]
Erase == Tok("E", 0)        \* erase the prompt region
Render(l) == Tok("R", Len(l))   \* render prompt + line (of that length)
FlushTok == Tok("F", 0)     \* flush of the sink
ClearScreen == Tok("C", 0)  \* Clear(ClearType::All) queued on the sink
Data(b) == Tok("D", b)      \* a payload written verbatim
Echo(l) == Tok("P", Len(l))     \* prompt + line + newline printed on Enter

\* LineState's prompt and its two should_print_line_on_* flags (both true by
\* default); the prompt is the one given to Readline::new until update_prompt.
Prompts == {"> ", "$ "}
Cfg(p, e, c) == [prompt |-> p, enter |-> e, control_c |-> c]
DefaultCfg == Cfg("> ", TRUE, TRUE)

Res(k, v) == [k |-> k, v |-> v]
NoResult == Res("none", <<>>)

Item(k, c) == [k |-> k, c |-> c]
NoItem == Item("none", "")
InputItems ==
    {Item("Char", "a"), Item("Char", "b"), Item("Enter", ""), Item("Err", ""),
     Item("None", "")}

\* The outcomes of one terminal operation: TRUE (Ok) or, while the fault budget
\* lasts, FALSE (Err).
Outcomes == IF faults < MaxFaults THEN {TRUE, FALSE} ELSE {TRUE}
Fault(ok) == IF ok THEN faults ELSE faults + 1

\* The await points.  On the current-thread runtime a task runs from one await point
\* to its next one before any other task runs; on the multi-thread runtime the
\* tasks run in parallel and only the mutexes order them.
MonAtRest == monPc \in {"unspawned", "await", "done"}
RlAtRest == rlPc \in {"idle", "await"}
MonRuns == runtime = "multi_thread" \/ RlAtRest
RlRuns == runtime = "multi_thread" \/ MonAtRest
OthersRun == runtime = "multi_thread" \/ (MonAtRest /\ RlAtRest)

\* The Readline instance exists (close() leaves it usable).
Live == life \in {"alive", "closed"}

Acquire(m, who) == [mutex EXCEPT ![m] = who]
Release(mx, ms) == [m \in Mutexes |-> IF m \in ms THEN "free" ELSE mx[m]]

\* ------------------------------------------------------------------------
\* LineState's writes to the sink, for the line `l` it holds.
PrintData(t, buf, l) == t \o <<Erase, Data(buf), Render(l)>>
ClearAndRender(t, l) == t \o <<Erase, Render(l)>>
RenderPrompt(t, l) == t \o <<Render(l)>>
FlushTerm(t) == Append(t, FlushTok)

\* ------------------------------------------------------------------------
\* SafeListManager (src/redux/async_list_manager.rs): the tasks that use one
\* manager, and its state after Default::default().
Writers == {"w1"}               \* tasks calling push / clear
Iterators == {"i1", "i2"}       \* tasks running an iterate_over_vec_* macro
ListTasks == Writers \cup Iterators
IterKinds == {"with", "with_async", "with_results_async"}

ListOp(o, i) == [op |-> o, item |-> i]
NoListOp == ListOp("none", 0)

ListInit ==
    /\ list = <<>>
    /\ listHeld = {}
    /\ listWait = <<>>
    /\ listPc = [t \in ListTasks |-> "idle"]
    /\ listOp = [t \in ListTasks |-> NoListOp]
    /\ itIdx = [t \in Iterators |-> 0]
    /\ itSeen = [t \in Iterators |-> <<>>]
    /\ itSnap = [t \in Iterators |-> <<>>]
    /\ itResults = [t \in Iterators |-> <<>>]
    /\ pushes = 0

Init ==
    /\ runtime = "current_thread"
    /\ life = "none"
    /\ rawMode = FALSE
    /\ paused = FALSE
    /\ pauseBuffer = <<>>
    /\ line = <<>>
    /\ term = <<>>
    /\ lineChan = <<>>
    /\ writerAlive = FALSE
    /\ rxOpen = FALSE
    /\ monShut = FALSE
    /\ rlShut = FALSE
    /\ monPc = "unspawned"
    /\ monSig = NoSig
    /\ monBuf = 0
    /\ monFlow = "none"
    /\ rlPc = "idle"
    /\ rlItem = NoItem
    /\ rlResult = NoResult
    /\ mutex = [m \in Mutexes |-> "free"]
    /\ nextLine = 1
    /\ ctlSent = 0
    /\ inputsLeft = MaxInputs
    /\ faults = 0
    /\ keys = <<>>
    /\ histChan = <<>>
    /\ history = <<>>
    /\ maxSize = HistorySizeMax
    /\ histAdds = 0
    /\ cursor = 0
    /\ wrResult = "none"
    /\ lineCfg = DefaultCfg
    /\ calls = 0
    /\ ListInit

\* ------------------------------------------------------------------------
\* Readline::new (readline.rs 346-419).  It fails at enable_raw_mode ("raw_err"),
\* at terminal::size ("size_err") or at the first render / flush ("render_err",
\* after the monitor was spawned: the Readline value is dropped, Drop runs, and
\* line_sender is dropped with it); or it returns the engine and one SharedWriter.
New ==
    /\ OthersRun
    /\ life = "none"
    /\ \E o \in {"ok", "raw_err", "size_err", "render_err"} :
        /\ life' = IF o = "ok" THEN "alive" ELSE "failed"
        /\ rawMode' = (o \in {"ok", "size_err"})
        /\ monPc' = IF o \in {"ok", "render_err"} THEN "await" ELSE monPc
        /\ rxOpen' = (o \in {"ok", "render_err"})
        /\ writerAlive' = (o = "ok")
        /\ monShut' = (o = "render_err")
        /\ term' = IF o = "ok" THEN FlushTerm(RenderPrompt(term, line)) ELSE term
    /\ UNCHANGED <<monFlow, listVars, cfgVars, histVars, wrResult, keys, runtime, paused,
                   pauseBuffer, line, lineChan, rlShut, monSig, monBuf, rlPc, rlItem,
                   rlResult, mutex, nextLine, ctlSent, inputsLeft, faults>>

\* ------------------------------------------------------------------------
\* The LineMonitor task (readline.rs 200-245).

\* The monitor leaves its loop but the receiver stays open (no close, no drop).
MonExitKeepsReceiver ==
    /\ monPc' = "done"
    /\ monSig' = NoSig
    /\ rxOpen' = rxOpen
    /\ lineChan' = lineChan

\* `match control_flow` (readline.rs 223-234) on what process_line_control_signal
\* returned: Continue goes back to the select!, ReturnError closes the receiver and
\* leaves the loop (MonExit), anything else reaches unreachable!() and the task
\* panics.
MonMatch(f) ==
    /\ monFlow' = f
    /\ monPc' = CASE f = "Continue" -> "await"
                  [] f = "ReturnError" -> "done"
                  [] OTHER -> "panicked"

\* `line_receiver.close(); break` and `break`: the task ends and drops the receiver
\* with whatever the channel still holds.
MonExit ==
    /\ monPc' = "done"
    /\ monSig' = NoSig
    /\ rxOpen' = FALSE
    /\ lineChan' = <<>>

\* select!: line_receiver.recv() completes with a signal, or with None once the
\* channel is empty and every sender is gone.
MonRecv ==
    /\ MonRuns
    /\ monPc = "await"
    /\ rxOpen
    /\ \/ /\ lineChan # <<>>
          /\ monSig' = Head(lineChan)
          /\ lineChan' = Tail(lineChan)
       \/ /\ lineChan = <<>>
          /\ ~writerAlive
          /\ monSig' = Sig("None", 0)
          /\ lineChan' = lineChan
    /\ monPc' = "process"
    /\ UNCHANGED <<monFlow, listVars, cfgVars, histVars, wrResult, keys, runtime, life,
                   rawMode, paused, pauseBuffer, line, term, writerAlive, rxOpen, monShut,
                   rlShut, monBuf, rlPc, rlItem, rlResult, mutex, nextLine, ctlSent,
                   inputsLeft, faults>>

\* The shutdown branch of the monitor taking the message without leaving the loop.
MonShutdownContinues ==
    /\ MonRuns
    /\ monPc = "await"
    /\ monShut
    /\ monShut' = FALSE
    /\ UNCHANGED <<monFlow, listVars, cfgVars, histVars, wrResult, keys, runtime, life,
                   rawMode, paused, pauseBuffer, line, term, lineChan, writerAlive, rxOpen,
                   rlShut, monPc, monSig, monBuf, rlPc, rlItem, rlResult, mutex, nextLine,
                   ctlSent, inputsLeft, faults>>

\* select!: shutdown_receiver.recv() completes => break.
MonShutdown ==
    /\ MonRuns
    /\ monPc = "await"
    /\ monShut
    /\ MonExit
    /\ UNCHANGED <<monFlow, listVars, cfgVars, histVars, wrResult, keys, runtime, life,
                   rawMode, paused, pauseBuffer, line, term, writerAlive, monShut, rlShut,
                   monBuf, rlPc, rlItem, rlResult, mutex, nextLine, ctlSent, inputsLeft,
                   faults>>

\* process_line_control_signal, None arm: ReturnError(Closed) => close and break.
MonClosed ==
    /\ MonRuns
    /\ monPc = "process"
    /\ monSig.type = "None"
    /\ MonMatch("ReturnError") /\ MonExit
    /\ UNCHANGED <<listVars, cfgVars, histVars, wrResult, keys, runtime, life, rawMode,
                   paused, pauseBuffer, line, term, writerAlive, monShut, rlShut, monBuf,
                   rlPc, rlItem, rlResult, mutex, nextLine, ctlSent, inputsLeft, faults>>

\* The Line arm without its `if paused` test: every Line is printed at once.
MonLineCheckNoPauseTest ==
    /\ MonRuns
    /\ monPc = "process"
    /\ monSig.type = "Line"
    /\ mutex["paused"] = "free"
    /\ monPc' = "line_lock_ls"
    /\ UNCHANGED <<monFlow, listVars, cfgVars, histVars, wrResult, keys, runtime, life,
                   rawMode, paused, pauseBuffer, line, term, lineChan, writerAlive, rxOpen,
                   monShut, rlShut, monSig, monBuf, rlPc, rlItem, rlResult, mutex,
                   nextLine, ctlSent, inputsLeft, faults>>

\* Line arm: `if *self_safe_is_paused.lock().unwrap()`.
MonLineCheck ==
    /\ MonRuns
    /\ monPc = "process"
    /\ monSig.type = "Line"
    /\ mutex["paused"] = "free"
    /\ monPc' = IF paused THEN "line_push" ELSE "line_lock_ls"
    /\ UNCHANGED <<monFlow, listVars, cfgVars, histVars, wrResult, keys, runtime, life,
                   rawMode, paused, pauseBuffer, line, term, lineChan, writerAlive, rxOpen,
                   monShut, rlShut, monSig, monBuf, rlPc, rlItem, rlResult, mutex,
                   nextLine, ctlSent, inputsLeft, faults>>

\* Line arm, paused: pause_buffer.push_back(buf); return Continue.
MonLinePush ==
    /\ MonRuns
    /\ monPc = "line_push"
    /\ mutex["buffer"] = "free"
    /\ pauseBuffer' = Append(pauseBuffer, monSig.buf)
    /\ MonMatch("Continue")
    /\ monSig' = NoSig
    /\ UNCHANGED <<listVars, cfgVars, histVars, wrResult, keys, runtime, life, rawMode,
                   paused, line, term, lineChan, writerAlive, rxOpen, monShut, rlShut,
                   monBuf, rlPc, rlItem, rlResult, mutex, nextLine, ctlSent, inputsLeft,
                   faults>>

\* Line arm, not paused: self_safe_line_state.lock() (the receiver of print_data is
\* evaluated, and locked, before its argument).
MonLineLockLineState ==
    /\ MonRuns
    /\ monPc = "line_lock_ls"
    /\ mutex["lineState"] = "free"
    /\ mutex' = Acquire("lineState", "mon")
    /\ monPc' = "line_print"
    /\ UNCHANGED <<monFlow, listVars, cfgVars, histVars, wrResult, keys, runtime, life,
                   rawMode, paused, pauseBuffer, line, term, lineChan, writerAlive, rxOpen,
                   monShut, rlShut, monSig, monBuf, rlPc, rlItem, rlResult, nextLine,
                   ctlSent, inputsLeft, faults>>

\* The Line arm writing `buf` to the sink itself instead of through print_data.
MonLinePrintRaw ==
    /\ MonRuns
    /\ monPc = "line_print"
    /\ mutex["term"] = "free"
    /\ mutex' = Release(mutex, {"lineState"})
    /\ \E ok \in Outcomes :
        /\ faults' = Fault(ok)
        /\ IF ok
             THEN /\ term' = Append(term, Data(monSig.buf))
                  /\ monPc' = "line_flush" /\ monFlow' = monFlow
                  /\ UNCHANGED <<monSig, rxOpen, lineChan>>
             ELSE /\ term' = term
                  /\ MonMatch("ReturnError") /\ MonExit
    /\ UNCHANGED <<listVars, cfgVars, histVars, wrResult, keys, runtime, life, rawMode,
                   paused, pauseBuffer, line, writerAlive, monShut, rlShut, monBuf, rlPc,
                   rlItem, rlResult, nextLine, ctlSent, inputsLeft>>

\* Line arm: print_data(&buf, &mut *self_safe_raw_terminal.lock()); an Err is
\* ReturnError, which ends the task.
MonLinePrint ==
    /\ MonRuns
    /\ monPc = "line_print"
    /\ mutex["term"] = "free"
    /\ mutex' = Release(mutex, {"lineState"})
    /\ \E ok \in Outcomes :
        /\ faults' = Fault(ok)
        /\ IF ok
             THEN /\ term' = PrintData(term, monSig.buf, line)
                  /\ monPc' = "line_flush" /\ monFlow' = monFlow
                  /\ UNCHANGED <<monSig, rxOpen, lineChan>>
             ELSE /\ term' = term
                  /\ MonMatch("ReturnError") /\ MonExit
    /\ UNCHANGED <<listVars, cfgVars, histVars, wrResult, keys, runtime, life, rawMode,
                   paused, pauseBuffer, line, writerAlive, monShut, rlShut, monBuf, rlPc,
                   rlItem, rlResult, nextLine, ctlSent, inputsLeft>>

\* Line arm: self_safe_raw_terminal.lock().unwrap().flush().
MonLineFlush ==
    /\ MonRuns
    /\ monPc = "line_flush"
    /\ mutex["term"] = "free"
    /\ \E ok \in Outcomes :
        /\ faults' = Fault(ok)
        /\ IF ok
             THEN /\ term' = FlushTerm(term)
                  /\ MonMatch("Continue")
                  /\ monSig' = NoSig
                  /\ UNCHANGED <<rxOpen, lineChan>>
             ELSE /\ term' = term
                  /\ MonMatch("ReturnError") /\ MonExit
    /\ UNCHANGED <<listVars, cfgVars, histVars, wrResult, keys, runtime, life, rawMode,
                   paused, pauseBuffer, line, writerAlive, monShut, rlShut, monBuf, rlPc,
                   rlItem, rlResult, mutex, nextLine, ctlSent, inputsLeft>>

\* The Pause arm also discarding what the PauseBuffer holds.
MonPauseClearsBuffer ==
    /\ MonRuns
    /\ monPc = "process"
    /\ monSig.type = "Pause"
    /\ mutex["paused"] = "free"
    /\ paused' = TRUE
    /\ pauseBuffer' = <<>>
    /\ MonMatch("Continue")
    /\ monSig' = NoSig
    /\ UNCHANGED <<listVars, cfgVars, histVars, wrResult, keys, runtime, life, rawMode,
                   line, term, lineChan, writerAlive, rxOpen, monShut, rlShut, monBuf,
                   rlPc, rlItem, rlResult, mutex, nextLine, ctlSent, inputsLeft, faults>>

\* The Pause arm returning ReturnOk(()), which the loop's match does not expect.
MonPauseReturnsOk ==
    /\ MonRuns
    /\ monPc = "process"
    /\ monSig.type = "Pause"
    /\ mutex["paused"] = "free"
    /\ paused' = TRUE
    /\ MonMatch("ReturnOk")
    /\ monSig' = NoSig
    /\ UNCHANGED <<listVars, cfgVars, histVars, wrResult, keys, runtime, life, rawMode,
                   pauseBuffer, line, term, lineChan, writerAlive, rxOpen, monShut, rlShut,
                   monBuf, rlPc, rlItem, rlResult, mutex, nextLine, ctlSent, inputsLeft,
                   faults>>

\* Pause arm: *self_safe_is_paused.lock().unwrap() = true.
MonPause ==
    /\ MonRuns
    /\ monPc = "process"
    /\ monSig.type = "Pause"
    /\ mutex["paused"] = "free"
    /\ paused' = TRUE
    /\ MonMatch("Continue")
    /\ monSig' = NoSig
    /\ UNCHANGED <<listVars, cfgVars, histVars, wrResult, keys, runtime, life, rawMode,
                   pauseBuffer, line, term, lineChan, writerAlive, rxOpen, monShut, rlShut,
                   monBuf, rlPc, rlItem, rlResult, mutex, nextLine, ctlSent, inputsLeft,
                   faults>>

\* The Resume arm without its store to the paused flag.
MonResumeStaysPaused ==
    /\ MonRuns
    /\ monPc = "process"
    /\ monSig.type = "Resume"
    /\ mutex["paused"] = "free"
    /\ paused' = paused
    /\ monPc' = "fl_check"
    /\ UNCHANGED <<monFlow, listVars, cfgVars, histVars, wrResult, keys, runtime, life,
                   rawMode, pauseBuffer, line, term, lineChan, writerAlive, rxOpen,
                   monShut, rlShut, monSig, monBuf, rlPc, rlItem, rlResult, mutex,
                   nextLine, ctlSent, inputsLeft, faults>>

\* Resume arm: *self_safe_is_paused.lock().unwrap() = false; then flush_internal.
MonResume ==
    /\ MonRuns
    /\ monPc = "process"
    /\ monSig.type = "Resume"
    /\ mutex["paused"] = "free"
    /\ paused' = FALSE
    /\ monPc' = "fl_check"
    /\ UNCHANGED <<monFlow, listVars, cfgVars, histVars, wrResult, keys, runtime, life,
                   rawMode, pauseBuffer, line, term, lineChan, writerAlive, rxOpen,
                   monShut, rlShut, monSig, monBuf, rlPc, rlItem, rlResult, mutex,
                   nextLine, ctlSent, inputsLeft, faults>>

\* Flush arm: flush_internal.
MonFlush ==
    /\ MonRuns
    /\ monPc = "process"
    /\ monSig.type = "Flush"
    /\ monPc' = "fl_check"
    /\ UNCHANGED <<monFlow, listVars, cfgVars, histVars, wrResult, keys, runtime, life,
                   rawMode, paused, pauseBuffer, line, term, lineChan, writerAlive, rxOpen,
                   monShut, rlShut, monSig, monBuf, rlPc, rlItem, rlResult, mutex,
                   nextLine, ctlSent, inputsLeft, faults>>

\* ------------------------------------------------------------------------
\* flush_internal (readline.rs 248-275), called by the Flush and Resume arms, which
\* drop its result (`let _ = flush_internal(..)`) and return Continue.

\* flush_internal without its paused guard: it always goes on to drain.
FlushCheckNoPauseTest ==
    /\ MonRuns
    /\ monPc = "fl_check"
    /\ mutex["paused"] = "free"
    /\ monPc' = "fl_lock_buf"
    /\ monSig' = monSig
    /\ UNCHANGED <<monFlow, listVars, cfgVars, histVars, wrResult, keys, runtime, life,
                   rawMode, paused, pauseBuffer, line, term, lineChan, writerAlive, rxOpen,
                   monShut, rlShut, monBuf, rlPc, rlItem, rlResult, mutex, nextLine,
                   ctlSent, inputsLeft, faults>>

\* `if *safe_is_paused.lock().unwrap() { return Ok(()) }`.
FlushCheck ==
    /\ MonRuns
    /\ monPc = "fl_check"
    /\ mutex["paused"] = "free"
    /\ IF paused
         THEN MonMatch("Continue") /\ monSig' = NoSig
         ELSE monPc' = "fl_lock_buf" /\ monFlow' = monFlow /\ monSig' = monSig
    /\ UNCHANGED <<listVars, cfgVars, histVars, wrResult, keys, runtime, life, rawMode,
                   paused, pauseBuffer, line, term, lineChan, writerAlive, rxOpen, monShut,
                   rlShut, monBuf, rlPc, rlItem, rlResult, mutex, nextLine, ctlSent,
                   inputsLeft, faults>>

\* `let is_paused_buffer = &mut *self_safe_is_paused_buffer.lock().unwrap()`: held
\* until flush_internal returns.
FlushLockBuffer ==
    /\ MonRuns
    /\ monPc = "fl_lock_buf"
    /\ mutex["buffer"] = "free"
    /\ mutex' = Acquire("buffer", "mon")
    /\ monPc' = "fl_pop"
    /\ UNCHANGED <<monFlow, listVars, cfgVars, histVars, wrResult, keys, runtime, life,
                   rawMode, paused, pauseBuffer, line, term, lineChan, writerAlive, rxOpen,
                   monShut, rlShut, monSig, monBuf, rlPc, rlItem, rlResult, nextLine,
                   ctlSent, inputsLeft, faults>>

\* `while let Some(buf) = is_paused_buffer.pop_front()`.
FlushPop ==
    /\ MonRuns
    /\ monPc = "fl_pop"
    /\ IF pauseBuffer = <<>>
         THEN /\ monPc' = "fl_cr_lock_ls"
              /\ UNCHANGED <<pauseBuffer, monBuf>>
         ELSE /\ monBuf' = Head(pauseBuffer)
              /\ pauseBuffer' = Tail(pauseBuffer)
              /\ monPc' = "fl_pd_lock_ls"
    /\ UNCHANGED <<monFlow, listVars, cfgVars, histVars, wrResult, keys, runtime, life,
                   rawMode, paused, line, term, lineChan, writerAlive, rxOpen, monShut,
                   rlShut, monSig, rlPc, rlItem, rlResult, mutex, nextLine, ctlSent,
                   inputsLeft, faults>>

\* safe_line_state.lock() of the loop body and of clear_and_render.
FlushLockLineState ==
    /\ MonRuns
    /\ monPc \in {"fl_pd_lock_ls", "fl_cr_lock_ls"}
    /\ mutex["lineState"] = "free"
    /\ mutex' = Acquire("lineState", "mon")
    /\ monPc' = IF monPc = "fl_pd_lock_ls" THEN "fl_pd_print" ELSE "fl_cr_render"
    /\ UNCHANGED <<monFlow, listVars, cfgVars, histVars, wrResult, keys, runtime, life,
                   rawMode, paused, pauseBuffer, line, term, lineChan, writerAlive, rxOpen,
                   monShut, rlShut, monSig, monBuf, rlPc, rlItem, rlResult, nextLine,
                   ctlSent, inputsLeft, faults>>

\* The loop body leaving flush_internal on Err with the PauseBuffer still locked.
FlushPrintKeepsBufferLock ==
    /\ MonRuns
    /\ monPc = "fl_pd_print"
    /\ mutex["term"] = "free"
    /\ \E ok \in Outcomes :
        /\ faults' = Fault(ok)
        /\ IF ok
             THEN /\ term' = PrintData(term, monBuf, line)
                  /\ monPc' = "fl_pop" /\ monFlow' = monFlow
                  /\ monSig' = monSig
                  /\ mutex' = Release(mutex, {"lineState"})
             ELSE /\ term' = term
                  /\ MonMatch("Continue")
                  /\ monSig' = NoSig
                  /\ mutex' = Release(mutex, {"lineState"})
    /\ monBuf' = 0
    /\ UNCHANGED <<listVars, cfgVars, histVars, wrResult, keys, runtime, life, rawMode,
                   paused, pauseBuffer, line, lineChan, writerAlive, rxOpen, monShut,
                   rlShut, rlPc, rlItem, rlResult, nextLine, ctlSent, inputsLeft>>

\* Loop body: print_data(&buf, &mut *safe_raw_terminal.lock().unwrap())?  The `?`
\* leaves flush_internal with the popped `buf` gone and the rest still queued.
FlushPrint ==
    /\ MonRuns
    /\ monPc = "fl_pd_print"
    /\ mutex["term"] = "free"
    /\ \E ok \in Outcomes :
        /\ faults' = Fault(ok)
        /\ IF ok
             THEN /\ term' = PrintData(term, monBuf, line)
                  /\ monPc' = "fl_pop" /\ monFlow' = monFlow
                  /\ monSig' = monSig
                  /\ mutex' = Release(mutex, {"lineState"})
             ELSE /\ term' = term
                  /\ MonMatch("Continue")
                  /\ monSig' = NoSig
                  /\ mutex' = Release(mutex, {"lineState", "buffer"})
    /\ monBuf' = 0
    /\ UNCHANGED <<listVars, cfgVars, histVars, wrResult, keys, runtime, life, rawMode,
                   paused, pauseBuffer, line, lineChan, writerAlive, rxOpen, monShut,
                   rlShut, rlPc, rlItem, rlResult, nextLine, ctlSent, inputsLeft>>

\* clear_and_render(&mut *safe_raw_terminal.lock().unwrap())?
FlushRender ==
    /\ MonRuns
    /\ monPc = "fl_cr_render"
    /\ mutex["term"] = "free"
    /\ \E ok \in Outcomes :
        /\ faults' = Fault(ok)
        /\ IF ok
             THEN /\ term' = ClearAndRender(term, line)
                  /\ monPc' = "fl_flush" /\ monFlow' = monFlow
                  /\ monSig' = monSig
                  /\ mutex' = Release(mutex, {"lineState"})
             ELSE /\ term' = term
                  /\ MonMatch("Continue")
                  /\ monSig' = NoSig
                  /\ mutex' = Release(mutex, {"lineState", "buffer"})
    /\ UNCHANGED <<listVars, cfgVars, histVars, wrResult, keys, runtime, life, rawMode,
                   paused, pauseBuffer, line, lineChan, writerAlive, rxOpen, monShut,
                   rlShut, monBuf, rlPc, rlItem, rlResult, nextLine, ctlSent, inputsLeft>>

\* safe_raw_terminal.lock().unwrap().flush()?; Ok(())
FlushFlush ==
    /\ MonRuns
    /\ monPc = "fl_flush"
    /\ mutex["term"] = "free"
    /\ \E ok \in Outcomes :
        /\ faults' = Fault(ok)
        /\ term' = IF ok THEN FlushTerm(term) ELSE term
    /\ MonMatch("Continue")
    /\ monSig' = NoSig
    /\ mutex' = Release(mutex, {"buffer"})
    /\ UNCHANGED <<listVars, cfgVars, histVars, wrResult, keys, runtime, life, rawMode,
                   paused, pauseBuffer, line, lineChan, writerAlive, rxOpen, monShut,
                   rlShut, monBuf, rlPc, rlItem, rlResult, nextLine, ctlSent, inputsLeft>>

MonNext ==
    \/ MonRecv
    \/ MonShutdown
    \/ MonClosed
    \/ MonLineCheck
    \/ MonLinePush
    \/ MonLineLockLineState
    \/ MonLinePrint
    \/ MonLineFlush
    \/ MonPause
    \/ MonResume
    \/ MonFlush
    \/ FlushCheck
    \/ FlushLockBuffer
    \/ FlushPop
    \/ FlushLockLineState
    \/ FlushPrint
    \/ FlushRender
    \/ FlushFlush

\* ------------------------------------------------------------------------
\* LineState::handle_event on the events the model feeds it: the new line, what it
\* writes to the sink, and the ReadlineEvent it returns.
HandleEventLine(ev, l) == IF ev.k = "Char" THEN Append(l, ev.c) ELSE <<>>
HandleEventTerm(ev, t, l) ==
    IF ev.k = "Char"
      THEN ClearAndRender(t, HandleEventLine(ev, l))
      ELSE IF lineCfg.enter
             THEN t \o <<Erase, Echo(l), Render(HandleEventLine(ev, l))>>
             ELSE t \o <<Erase, Render(HandleEventLine(ev, l))>>
HandleEventResult(ev, l) == IF ev.k = "Enter" THEN Res("Line", l) ELSE NoResult

\* ------------------------------------------------------------------------
\* Readline::readline (readline.rs 468-504).

\* `let mut shutdown_receiver = self.shutdown_sender.subscribe()`: a new receiver
\* sees only what is sent after it subscribed.
RlCall ==
    /\ RlRuns
    /\ Live
    /\ rlPc = "idle"
    /\ rlPc' = "await"
    /\ rlShut' = FALSE
    /\ rlResult' = NoResult
    /\ UNCHANGED <<monFlow, listVars, cfgVars, histVars, wrResult, keys, runtime, life,
                   rawMode, paused, pauseBuffer, line, term, lineChan, writerAlive, rxOpen,
                   monShut, monPc, monSig, monBuf, rlItem, mutex, nextLine, ctlSent,
                   inputsLeft, faults>>

\* `return`: the call's shutdown_receiver is dropped with it.
RlReturn(r) ==
    /\ rlResult' = r
    /\ rlPc' = "idle"
    /\ rlShut' = FALSE
    /\ rlItem' = NoItem

\* select!: self.pinned_input_stream.next() completes with an item.
RlInput ==
    /\ RlRuns
    /\ rlPc = "await"
    /\ inputsLeft > 0
    /\ \E it \in InputItems : rlItem' = it /\ keys' = Append(keys, it)
    /\ inputsLeft' = inputsLeft - 1
    /\ rlPc' = "lock_term"
    /\ UNCHANGED <<monFlow, listVars, cfgVars, histVars, wrResult, runtime, life, rawMode,
                   paused, pauseBuffer, line, term, lineChan, writerAlive, rxOpen, monShut,
                   rlShut, monPc, monSig, monBuf, rlResult, mutex, nextLine, ctlSent,
                   faults>>

\* The argument `&mut *self.safe_raw_terminal.lock().unwrap()` of process_event: the
\* guard lives until the match on process_event's result ends.
RlLockTerm ==
    /\ RlRuns
    /\ rlPc = "lock_term"
    /\ mutex["term"] = "free"
    /\ mutex' = Acquire("term", "rl")
    /\ rlPc' = "process_event"
    /\ UNCHANGED <<monFlow, listVars, cfgVars, histVars, wrResult, keys, runtime, life,
                   rawMode, paused, pauseBuffer, line, term, lineChan, writerAlive, rxOpen,
                   monShut, rlShut, monPc, monSig, monBuf, rlItem, rlResult, nextLine,
                   ctlSent, inputsLeft, faults>>

\* process_event clearing the line on an item that carries no event.
RlProcessNoEventClearsLine ==
    /\ RlRuns
    /\ rlPc = "process_event"
    /\ rlItem.k \in {"None", "Err"}
    /\ mutex' = Release(mutex, {"term"})
    /\ line' = <<>>
    /\ IF rlItem.k = "None"
         THEN /\ rlPc' = "await"
              /\ rlItem' = NoItem
              /\ UNCHANGED <<rlResult, rlShut>>
         ELSE RlReturn(Res("IO", <<>>))
    /\ UNCHANGED <<monFlow, listVars, cfgVars, histVars, wrResult, keys, runtime, life,
                   rawMode, paused, pauseBuffer, term, lineChan, writerAlive, rxOpen,
                   monShut, monPc, monSig, monBuf, nextLine, ctlSent, inputsLeft, faults>>

\* process_event reporting Eof when the stream yields None.
RlProcessNoEventEof ==
    /\ RlRuns
    /\ rlPc = "process_event"
    /\ rlItem.k \in {"None", "Err"}
    /\ mutex' = Release(mutex, {"term"})
    /\ IF rlItem.k = "None"
         THEN RlReturn(Res("Eof", <<>>))
         ELSE RlReturn(Res("IO", <<>>))
    /\ UNCHANGED <<monFlow, listVars, cfgVars, histVars, wrResult, keys, runtime, life,
                   rawMode, paused, pauseBuffer, line, term, lineChan, writerAlive, rxOpen,
                   monShut, monPc, monSig, monBuf, nextLine, ctlSent, inputsLeft, faults>>

\* process_event (readline.rs 515-544) on None: Continue; on Some(Err(e)):
\* ReturnError(e.into()).
RlProcessNoEvent ==
    /\ RlRuns
    /\ rlPc = "process_event"
    /\ rlItem.k \in {"None", "Err"}
    /\ mutex' = Release(mutex, {"term"})
    /\ IF rlItem.k = "None"
         THEN /\ rlPc' = "await"
              /\ rlItem' = NoItem
              /\ UNCHANGED <<rlResult, rlShut>>
         ELSE RlReturn(Res("IO", <<>>))
    /\ UNCHANGED <<monFlow, listVars, cfgVars, histVars, wrResult, keys, runtime, life,
                   rawMode, paused, pauseBuffer, line, term, lineChan, writerAlive, rxOpen,
                   monShut, monPc, monSig, monBuf, nextLine, ctlSent, inputsLeft, faults>>

\* process_event without its ReturnOk: the event handle_event gave is dropped and
\* the loop goes on.
RlProcessEventNoReturn ==
    /\ RlRuns
    /\ rlPc = "process_event"
    /\ rlItem.k \in {"Char", "Enter"}
    /\ mutex["lineState"] = "free"
    /\ mutex' = Release(mutex, {"term"})
    /\ \E o \in {"ok"} \cup (IF faults < MaxFaults THEN {"handle_err", "flush_err"} ELSE {}) :
        /\ faults' = IF o = "ok" THEN faults ELSE faults + 1
        /\ line' = IF o = "handle_err" THEN line ELSE HandleEventLine(rlItem, line)
        /\ cursor' = IF o = "handle_err" THEN cursor ELSE 0
        /\ term' = CASE o = "handle_err" -> term
                     [] o = "flush_err" -> HandleEventTerm(rlItem, term, line)
                     [] OTHER -> FlushTerm(HandleEventTerm(rlItem, term, line))
        /\ IF o # "ok"
             THEN RlReturn(Res("IO", <<>>))
             ELSE /\ rlPc' = "await"
                  /\ rlItem' = NoItem
                  /\ UNCHANGED <<rlResult, rlShut>>
    /\ UNCHANGED <<monFlow, listVars, cfgVars, histChan, history, maxSize, histAdds,
                   wrResult, keys, runtime, life, rawMode, paused, pauseBuffer, lineChan,
                   writerAlive, rxOpen, monShut, monPc, monSig, monBuf, nextLine, ctlSent,
                   inputsLeft>>

\* process_event without the flush after handle_event.
RlProcessEventNoFlush ==
    /\ RlRuns
    /\ rlPc = "process_event"
    /\ rlItem.k \in {"Char", "Enter"}
    /\ mutex["lineState"] = "free"
    /\ mutex' = Release(mutex, {"term"})
    /\ \E o \in {"ok"} \cup (IF faults < MaxFaults THEN {"handle_err"} ELSE {}) :
        /\ faults' = IF o = "ok" THEN faults ELSE faults + 1
        /\ line' = IF o = "handle_err" THEN line ELSE HandleEventLine(rlItem, line)
        /\ cursor' = IF o = "handle_err" THEN cursor ELSE 0
        /\ term' = IF o = "handle_err" THEN term ELSE HandleEventTerm(rlItem, term, line)
        /\ IF o # "ok"
             THEN RlReturn(Res("IO", <<>>))
             ELSE IF HandleEventResult(rlItem, line) # NoResult
                    THEN RlReturn(HandleEventResult(rlItem, line))
                    ELSE /\ rlPc' = "await"
                         /\ rlItem' = NoItem
                         /\ UNCHANGED <<rlResult, rlShut>>
    /\ UNCHANGED <<monFlow, listVars, cfgVars, histChan, history, maxSize, histAdds,
                   wrResult, keys, runtime, life, rawMode, paused, pauseBuffer, lineChan,
                   writerAlive, rxOpen, monShut, monPc, monSig, monBuf, nextLine, ctlSent,
                   inputsLeft>>

\* process_event consulting the paused flag: while paused the event is handled but
\* nothing of it is rendered.
RlProcessEventGated ==
    /\ RlRuns
    /\ rlPc = "process_event"
    /\ rlItem.k \in {"Char", "Enter"}
    /\ mutex["lineState"] = "free"
    /\ mutex' = Release(mutex, {"term"})
    /\ line' = HandleEventLine(rlItem, line)
    /\ cursor' = 0
    /\ term' = IF paused THEN term ELSE FlushTerm(HandleEventTerm(rlItem, term, line))
    /\ IF HandleEventResult(rlItem, line) # NoResult
         THEN RlReturn(HandleEventResult(rlItem, line))
         ELSE /\ rlPc' = "await"
              /\ rlItem' = NoItem
              /\ UNCHANGED <<rlResult, rlShut>>
    /\ UNCHANGED <<monFlow, listVars, cfgVars, histChan, history, maxSize, histAdds,
                   wrResult, keys, runtime, life, rawMode, paused, pauseBuffer, lineChan,
                   writerAlive, rxOpen, monShut, monPc, monSig, monBuf, nextLine, ctlSent,
                   inputsLeft, faults>>

\* process_event on Some(Ok(event)): self_line_state.lock(), handle_event, then
\* self_raw_terminal.flush(); ReturnOk if handle_event gave an event.
RlProcessEvent ==
    /\ RlRuns
    /\ rlPc = "process_event"
    /\ rlItem.k \in {"Char", "Enter"}
    /\ mutex["lineState"] = "free"
    /\ mutex' = Release(mutex, {"term"})
    /\ \E o \in {"ok"} \cup (IF faults < MaxFaults THEN {"handle_err", "flush_err"} ELSE {}) :
        /\ faults' = IF o = "ok" THEN faults ELSE faults + 1
        /\ line' = IF o = "handle_err" THEN line ELSE HandleEventLine(rlItem, line)
        /\ cursor' = IF o = "handle_err" THEN cursor ELSE 0
        /\ term' = CASE o = "handle_err" -> term
                     [] o = "flush_err" -> HandleEventTerm(rlItem, term, line)
                     [] OTHER -> FlushTerm(HandleEventTerm(rlItem, term, line))
        /\ IF o # "ok"
             THEN RlReturn(Res("IO", <<>>))
             ELSE IF HandleEventResult(rlItem, line) # NoResult
                    THEN RlReturn(HandleEventResult(rlItem, line))
                    ELSE /\ rlPc' = "await"
                         /\ rlItem' = NoItem
                         /\ UNCHANGED <<rlResult, rlShut>>
    /\ UNCHANGED <<monFlow, listVars, cfgVars, histChan, history, maxSize, histAdds,
                   wrResult, keys, runtime, life, rawMode, paused, pauseBuffer, lineChan,
                   writerAlive, rxOpen, monShut, monPc, monSig, monBuf, nextLine, ctlSent,
                   inputsLeft>>

\* The shutdown branch of readline() taking the message without leaving the loop.
RlShutdownContinues ==
    /\ RlRuns
    /\ rlPc = "await"
    /\ rlShut
    /\ rlShut' = FALSE
    /\ UNCHANGED <<monFlow, listVars, cfgVars, histVars, wrResult, keys, runtime, life,
                   rawMode, paused, pauseBuffer, line, term, lineChan, writerAlive, rxOpen,
                   monShut, monPc, monSig, monBuf, rlPc, rlItem, rlResult, mutex, nextLine,
                   ctlSent, inputsLeft, faults>>

\* select!: shutdown_receiver.recv() completes => break Err(ReadlineError::Closed).
RlShutdown ==
    /\ RlRuns
    /\ rlPc = "await"
    /\ rlShut
    /\ RlReturn(Res("Closed", <<>>))
    /\ UNCHANGED <<monFlow, listVars, cfgVars, histVars, wrResult, keys, runtime, life,
                   rawMode, paused, pauseBuffer, line, term, lineChan, writerAlive, rxOpen,
                   monShut, monPc, monSig, monBuf, mutex, nextLine, ctlSent, inputsLeft,
                   faults>>

RlNext ==
    \/ RlCall
    \/ RlInput
    \/ RlLockTerm
    \/ RlProcessNoEvent
    \/ RlProcessEvent
    \/ RlShutdown

\* ------------------------------------------------------------------------
\* The other tasks: the holder of the SharedWriter and the owner of the Readline.

\* line_sender.send(LineControlSignal::Line(..)).await: waits while the channel is
\* full.  Payloads are numbered in the order they are sent.
SendLine ==
    /\ OthersRun
    /\ writerAlive
    /\ rxOpen
    /\ Len(lineChan) < ChannelCapacity
    /\ nextLine <= MaxLines
    /\ lineChan' = Append(lineChan, Sig("Line", nextLine))
    /\ nextLine' = nextLine + 1
    /\ wrResult' = "ok"
    /\ UNCHANGED <<monFlow, listVars, cfgVars, histVars, keys, runtime, life, rawMode,
                   paused, pauseBuffer, line, term, writerAlive, rxOpen, monShut, rlShut,
                   monPc, monSig, monBuf, rlPc, rlItem, rlResult, mutex, ctlSent,
                   inputsLeft, faults>>

\* line_sender.send(LineControlSignal::Pause | Resume | Flush).await.
SendControl ==
    /\ OthersRun
    /\ writerAlive
    /\ rxOpen
    /\ Len(lineChan) < ChannelCapacity
    /\ ctlSent < MaxCtl
    /\ \E t \in {"Pause", "Resume", "Flush"} : lineChan' = Append(lineChan, Sig(t, 0))
    /\ ctlSent' = ctlSent + 1
    /\ wrResult' = "ok"
    /\ UNCHANGED <<monFlow, listVars, cfgVars, histVars, keys, runtime, life, rawMode,
                   paused, pauseBuffer, line, term, writerAlive, rxOpen, monShut, rlShut,
                   monPc, monSig, monBuf, rlPc, rlItem, rlResult, mutex, nextLine,
                   inputsLeft, faults>>

\* A write or flush of the SharedWriter once the receiver is closed or dropped: the
\* send fails (also for a sender that was waiting for room) and the writer reports
\* a broken pipe.
SendClosed ==
    /\ OthersRun
    /\ writerAlive
    /\ ~rxOpen
    /\ wrResult' = "BrokenPipe"
    /\ UNCHANGED <<monFlow, listVars, cfgVars, histVars, keys, runtime, life, rawMode,
                   paused, pauseBuffer, line, term, lineChan, writerAlive, rxOpen, monShut,
                   rlShut, monPc, monSig, monBuf, rlPc, rlItem, rlResult, mutex, nextLine,
                   ctlSent, inputsLeft, faults>>

\* The (last) SharedWriter is dropped.
DropWriter ==
    /\ OthersRun
    /\ writerAlive
    /\ writerAlive' = FALSE
    /\ UNCHANGED <<monFlow, listVars, cfgVars, histVars, wrResult, keys, runtime, life,
                   rawMode, paused, pauseBuffer, line, term, lineChan, rxOpen, monShut,
                   rlShut, monPc, monSig, monBuf, rlPc, rlItem, rlResult, mutex, nextLine,
                   ctlSent, inputsLeft, faults>>

\* shutdown_sender.send(true): the message reaches the receivers that exist now.
ShutdownSend ==
    /\ monShut' = (monShut \/ monPc \notin {"unspawned", "done"})
    /\ rlShut' = (rlShut \/ rlPc # "idle")

\* close() also clearing the paused flag.
CloseUnpauses ==
    /\ OthersRun
    /\ Live
    /\ rlPc = "idle"
    /\ ShutdownSend
    /\ life' = "closed"
    /\ paused' = FALSE
    /\ UNCHANGED <<monFlow, listVars, cfgVars, histVars, wrResult, keys, runtime, rawMode,
                   pauseBuffer, line, term, lineChan, writerAlive, rxOpen, monPc, monSig,
                   monBuf, rlPc, rlItem, rlResult, mutex, nextLine, ctlSent, inputsLeft,
                   faults>>

\* Readline::close (readline.rs 568-570); it takes &mut self, so no readline() call
\* of this instance is in flight.
Close ==
    /\ OthersRun
    /\ Live
    /\ rlPc = "idle"
    /\ ShutdownSend
    /\ life' = "closed"
    /\ UNCHANGED <<monFlow, listVars, cfgVars, histVars, wrResult, keys, runtime, rawMode,
                   paused, pauseBuffer, line, term, lineChan, writerAlive, rxOpen, monPc,
                   monSig, monBuf, rlPc, rlItem, rlResult, mutex, nextLine, ctlSent,
                   inputsLeft, faults>>

\* A clone of the public shutdown_sender field sends `true` while a readline() call
\* is in flight (what close(), which needs &mut self, cannot do).
SignalShutdown ==
    /\ OthersRun
    /\ Live
    /\ rlPc = "await"
    /\ ShutdownSend
    /\ UNCHANGED <<monFlow, listVars, cfgVars, histVars, wrResult, keys, runtime, life,
                   rawMode, paused, pauseBuffer, line, term, lineChan, writerAlive, rxOpen,
                   monPc, monSig, monBuf, rlPc, rlItem, rlResult, mutex, nextLine, ctlSent,
                   inputsLeft, faults>>

\* impl Drop for Readline (readline.rs 553-556).
Drop ==
    /\ OthersRun
    /\ Live
    /\ rlPc = "idle"
    /\ ShutdownSend
    /\ rawMode' = FALSE
    /\ life' = "dropped"
    /\ UNCHANGED <<monFlow, listVars, cfgVars, histVars, wrResult, keys, runtime, paused,
                   pauseBuffer, line, term, lineChan, writerAlive, rxOpen, monPc, monSig,
                   monBuf, rlPc, rlItem, rlResult, mutex, nextLine, ctlSent, inputsLeft,
                   faults>>

EnvNext ==
    \/ New
    \/ SendLine
    \/ SendControl
    \/ DropWriter
    \/ Close
    \/ SignalShutdown
    \/ Drop

\* ------------------------------------------------------------------------
\* The History (readline.rs 444-449, 491-495, 506-509) and the cancellation of a
\* readline() call.

Min(a, b) == IF a < b THEN a ELSE b

\* The entry of the k-th add_history_entry call: a string of length k, so that the
\* entries are distinct and their age can be read off them.
HistEntry(k) == [i \in 1..k |-> "h"]

\* History::update on Some(entry): push newest; beyond max_size drop the oldest.
HistoryAppend(h, e, m) == SubSeq(<<e>> \o h, 1, Min(Len(h) + 1, m))

\* Vec::truncate(n) of entries kept newest first.
Truncate(h, n) == SubSeq(h, 1, Min(Len(h), n))

\* add_history_entry appending to the History itself instead of sending the entry.
AddHistoryEntryDirect ==
    /\ OthersRun
    /\ Live
    /\ rlPc = "idle"
    /\ histAdds < MaxHistAdds
    /\ mutex["history"] = "free"
    /\ histAdds' = histAdds + 1
    /\ history' = HistoryAppend(history, HistEntry(histAdds + 1), maxSize)
    /\ cursor' = 0
    /\ UNCHANGED <<monFlow, listVars, cfgVars, histChan, maxSize, wrResult, keys, runtime,
                   life, rawMode, paused, pauseBuffer, line, term, lineChan, writerAlive,
                   rxOpen, monShut, rlShut, monPc, monSig, monBuf, rlPc, rlItem, rlResult,
                   mutex, nextLine, ctlSent, inputsLeft, faults>>

\* Readline::add_history_entry: history_sender.send(entry) on the unbounded channel.
AddHistoryEntry ==
    /\ OthersRun
    /\ Live
    /\ rlPc = "idle"
    /\ histAdds < MaxHistAdds
    /\ histAdds' = histAdds + 1
    /\ histChan' = Append(histChan, HistEntry(histAdds + 1))
    /\ UNCHANGED <<monFlow, listVars, cfgVars, history, maxSize, cursor, wrResult, keys,
                   runtime, life, rawMode, paused, pauseBuffer, line, term, lineChan,
                   writerAlive, rxOpen, monShut, rlShut, monPc, monSig, monBuf, rlPc,
                   rlItem, rlResult, mutex, nextLine, ctlSent, inputsLeft, faults>>

\* set_max_history without its truncate: only max_size is set.
SetMaxHistoryNoTruncate ==
    /\ OthersRun
    /\ Live
    /\ rlPc = "idle"
    /\ mutex["history"] = "free"
    /\ \E n \in 0..HistorySizeMax :
        /\ maxSize' = n
        /\ history' = history
    /\ UNCHANGED <<monFlow, listVars, cfgVars, histChan, histAdds, cursor, wrResult, keys,
                   runtime, life, rawMode, paused, pauseBuffer, line, term, lineChan,
                   writerAlive, rxOpen, monShut, rlShut, monPc, monSig, monBuf, rlPc,
                   rlItem, rlResult, mutex, nextLine, ctlSent, inputsLeft, faults>>

\* Readline::set_max_history: under the history lock, max_size = n and
\* entries.truncate(n).
SetMaxHistory ==
    /\ OthersRun
    /\ Live
    /\ rlPc = "idle"
    /\ mutex["history"] = "free"
    /\ \E n \in 0..HistorySizeMax :
        /\ maxSize' = n
        /\ history' = Truncate(history, n)
    /\ UNCHANGED <<monFlow, listVars, cfgVars, histChan, histAdds, cursor, wrResult, keys,
                   runtime, life, rawMode, paused, pauseBuffer, line, term, lineChan,
                   writerAlive, rxOpen, monShut, rlShut, monPc, monSig, monBuf, rlPc,
                   rlItem, rlResult, mutex, nextLine, ctlSent, inputsLeft, faults>>

\* select!: self.history_receiver.recv() completes;
\* self.safe_history.lock().unwrap().update(maybe_line), then the loop goes on.
RlHistory ==
    /\ RlRuns
    /\ rlPc = "await"
    /\ histChan # <<>>
    /\ mutex["history"] = "free"
    /\ history' = HistoryAppend(history, Head(histChan), maxSize)
    /\ histChan' = Tail(histChan)
    /\ cursor' = 0
    /\ UNCHANGED <<monFlow, listVars, cfgVars, maxSize, histAdds, wrResult, keys, runtime,
                   life, rawMode, paused, pauseBuffer, line, term, lineChan, writerAlive,
                   rxOpen, monShut, rlShut, monPc, monSig, monBuf, rlPc, rlItem, rlResult,
                   mutex, nextLine, ctlSent, inputsLeft, faults>>

\* ------------------------------------------------------------------------
\* History navigation (Up / Down), handled by LineState::handle_event with the
\* History it is given (readline.rs 482-483, 526).

NavItems == {Item("Up", ""), Item("Down", "")}

\* History::recall_prev / recall_next: the cursor moves toward older (up to the
\* number of entries) or newer (down to 0 = no selection) and stays at the edges.
RecallPrev(c, h) == IF c < Len(h) THEN c + 1 ELSE c
RecallNext(c) == IF c > 0 THEN c - 1 ELSE 0

\* The entry the cursor selects (the c-th newest); nothing for no selection or for
\* an index beyond the entries.
Recalled(c, h) == IF c \in 1..Len(h) THEN h[c] ELSE <<>>

\* handle_event on Up: replace the line with recall_prev() (kept at the edge);
\* on Down: replace the line with recall_next() or "".
NavCursor(ev, c, h) == IF ev.k = "Up" THEN RecallPrev(c, h) ELSE RecallNext(c)
NavLine(ev, c, h, l) ==
    IF ev.k = "Up"
      THEN IF c < Len(h) THEN Recalled(c + 1, h) ELSE l
      ELSE Recalled(RecallNext(c), h)

\* select!: self.pinned_input_stream.next() completes with an Up or Down key.
RlInputNav ==
    /\ RlRuns
    /\ rlPc = "await"
    /\ inputsLeft > 0
    /\ \E it \in NavItems : rlItem' = it /\ keys' = Append(keys, it)
    /\ inputsLeft' = inputsLeft - 1
    /\ rlPc' = "lock_term"
    /\ UNCHANGED <<monFlow, listVars, cfgVars, histVars, wrResult, runtime, life, rawMode,
                   paused, pauseBuffer, line, term, lineChan, writerAlive, rxOpen, monShut,
                   rlShut, monPc, monSig, monBuf, rlResult, mutex, nextLine, ctlSent,
                   faults>>

\* process_event on Some(Ok(Up | Down)): self_line_state.lock(), handle_event (which
\* locks the History it was given), then self_raw_terminal.flush(); no event is
\* returned, so the loop goes on unless a terminal operation failed.
RlProcessNav ==
    /\ RlRuns
    /\ rlPc = "process_event"
    /\ rlItem \in NavItems
    /\ mutex["lineState"] = "free"
    /\ mutex["history"] = "free"
    /\ mutex' = Release(mutex, {"term"})
    /\ \E o \in {"ok"} \cup (IF faults < MaxFaults THEN {"handle_err", "flush_err"} ELSE {}) :
        /\ faults' = IF o = "ok" THEN faults ELSE faults + 1
        /\ cursor' = NavCursor(rlItem, cursor, history)
        /\ line' = NavLine(rlItem, cursor, history, line)
        /\ term' = CASE o = "handle_err" -> term
                     [] o = "flush_err" -> ClearAndRender(term, line')
                     [] OTHER -> FlushTerm(ClearAndRender(term, line'))
        /\ IF o # "ok"
             THEN RlReturn(Res("IO", <<>>))
             ELSE /\ rlPc' = "await"
                  /\ rlItem' = NoItem
                  /\ UNCHANGED <<rlResult, rlShut>>
    /\ UNCHANGED <<monFlow, listVars, cfgVars, histChan, history, maxSize, histAdds,
                   wrResult, keys, runtime, life, rawMode, paused, pauseBuffer, lineChan,
                   writerAlive, rxOpen, monShut, monPc, monSig, monBuf, nextLine, ctlSent,
                   inputsLeft>>

\* A dropped readline() future that had taken an item off the input stream.
RlCancelLosesItem ==
    /\ OthersRun
    /\ rlPc = "await"
    /\ inputsLeft > 0
    /\ \E it \in InputItems : keys' = Append(keys, it)
    /\ inputsLeft' = inputsLeft - 1
    /\ rlPc' = "idle"
    /\ rlShut' = FALSE
    /\ UNCHANGED <<monFlow, listVars, cfgVars, histVars, wrResult, runtime, life, rawMode,
                   paused, pauseBuffer, line, term, lineChan, writerAlive, rxOpen, monShut,
                   monPc, monSig, monBuf, rlItem, rlResult, mutex, nextLine, ctlSent,
                   faults>>

\* The caller drops the readline() future while it is suspended in its select!: the
\* future holds only shutdown_receiver, which is dropped with it; everything else
\* is in self.
RlCancel ==
    /\ OthersRun
    /\ rlPc = "await"
    /\ rlPc' = "idle"
    /\ rlShut' = FALSE
    /\ UNCHANGED <<monFlow, listVars, cfgVars, histVars, wrResult, keys, runtime, life,
                   rawMode, paused, pauseBuffer, line, term, lineChan, writerAlive, rxOpen,
                   monShut, monPc, monSig, monBuf, rlItem, rlResult, mutex, nextLine,
                   ctlSent, inputsLeft, faults>>

\* ------------------------------------------------------------------------
Next ==
    \/ MonRecv
    \/ MonShutdown
    \/ MonClosed
    \/ MonLineCheck
    \/ MonLinePush
    \/ MonLineLockLineState
    \/ MonLinePrint
    \/ MonLineFlush
    \/ MonPause
    \/ MonResume
    \/ MonFlush
    \/ FlushCheck
    \/ FlushLockBuffer
    \/ FlushPop
    \/ FlushLockLineState
    \/ FlushPrint
    \/ FlushRender
    \/ FlushFlush
    \/ RlCall
    \/ RlInput
    \/ RlLockTerm
    \/ RlProcessNoEvent
    \/ RlProcessEvent
    \/ RlShutdown
    \/ New
    \/ SendLine
    \/ SendControl
    \/ SendClosed
    \/ DropWriter
    \/ Close
    \/ SignalShutdown
    \/ Drop

Spec == Init /\ [][Next]_vars

\* ------------------------------------------------------------------------
\* The keyboard runs: the engine's side (readline() with its input, history and
\* shutdown branches, cancelled calls, the History operations) with a SharedWriter
\* that writes nothing, so the monitor only waits, or ends once the writer is
\* dropped or the shutdown signal is sent.
InputInit ==
    /\ runtime = "current_thread"
    /\ life = "none"
    /\ rawMode = FALSE
    /\ paused = FALSE
    /\ pauseBuffer = <<>>
    /\ line = <<>>
    /\ term = <<>>
    /\ lineChan = <<>>
    /\ writerAlive = FALSE
    /\ rxOpen = FALSE
    /\ monShut = FALSE
    /\ rlShut = FALSE
    /\ monPc = "unspawned"
    /\ monSig = NoSig
    /\ monBuf = 0
    /\ monFlow = "none"
    /\ rlPc = "idle"
    /\ rlItem = NoItem
    /\ rlResult = NoResult
    /\ mutex = [m \in Mutexes |-> "free"]
    /\ nextLine = 1
    /\ ctlSent = 0
    /\ inputsLeft = MaxKeys
    /\ faults = 0
    /\ keys = <<>>
    /\ histChan = <<>>
    /\ history = <<>>
    /\ maxSize = HistorySizeMax
    /\ histAdds = 0
    /\ cursor = 0
    /\ wrResult = "none"
    /\ lineCfg = DefaultCfg
    /\ calls = 0
    /\ ListInit

InputNext ==
    \/ New
    \/ RlCall
    \/ RlInput
    \/ RlLockTerm
    \/ RlProcessNoEvent
    \/ RlProcessEvent
    \/ RlHistory
    \/ RlShutdown
    \/ RlCancel
    \/ AddHistoryEntry
    \/ SetMaxHistory
    \/ DropWriter
    \/ MonRecv
    \/ MonClosed
    \/ MonShutdown
    \/ Close
    \/ SignalShutdown
    \/ Drop

InputSpec == InputInit /\ [][InputNext]_vars

\* ------------------------------------------------------------------------
\* ------------------------------------------------------------------------
\* The engine with history navigation: the input stream also yields Up and Down.
HistNext ==
    \/ New
    \/ RlCall
    \/ RlInput
    \/ RlInputNav
    \/ RlLockTerm
    \/ RlProcessNoEvent
    \/ RlProcessEvent
    \/ RlProcessNav
    \/ RlHistory
    \/ RlCancel
    \/ AddHistoryEntry
    \/ SetMaxHistory

HistSpec == InputInit /\ [][HistNext]_vars

\* ------------------------------------------------------------------------
\* Typing while the writer is paused and resumed, on a terminal that does not fail:
\* the input stream yields one item more than in Init, all but one Line signal of
\* the budget are used up, and so is the budget of failing terminal operations.
GateInit ==
    /\ runtime = "current_thread"
    /\ life = "none"
    /\ rawMode = FALSE
    /\ paused = FALSE
    /\ pauseBuffer = <<>>
    /\ line = <<>>
    /\ term = <<>>
    /\ lineChan = <<>>
    /\ writerAlive = FALSE
    /\ rxOpen = FALSE
    /\ monShut = FALSE
    /\ rlShut = FALSE
    /\ monPc = "unspawned"
    /\ monSig = NoSig
    /\ monBuf = 0
    /\ monFlow = "none"
    /\ rlPc = "idle"
    /\ rlItem = NoItem
    /\ rlResult = NoResult
    /\ mutex = [m \in Mutexes |-> "free"]
    /\ nextLine = MaxLines
    /\ ctlSent = 0
    /\ inputsLeft = MaxInputs + 1
    /\ faults = MaxFaults
    /\ keys = <<>>
    /\ histChan = <<>>
    /\ history = <<>>
    /\ maxSize = HistorySizeMax
    /\ histAdds = 0
    /\ cursor = 0
    /\ wrResult = "none"
    /\ lineCfg = DefaultCfg
    /\ calls = 0
    /\ ListInit

GateSpec == GateInit /\ [][Next]_vars

\* ------------------------------------------------------------------------
\* The synchronous methods of Readline that take &mut self (readline.rs 421-464):
\* no readline() call of the instance is in flight, and on the current-thread
\* runtime each runs to its end before any task does.

\* Readline::update_prompt: safe_line_state.lock(), then safe_raw_terminal.lock()
\* for the argument, LineState::update_prompt (replace the prompt, redraw).
UpdatePrompt ==
    /\ OthersRun
    /\ Live
    /\ rlPc = "idle"
    /\ calls < MaxCalls
    /\ mutex["lineState"] = "free"
    /\ mutex["term"] = "free"
    /\ \E p \in Prompts, ok \in Outcomes :
        /\ lineCfg' = [lineCfg EXCEPT !.prompt = p]
        /\ faults' = Fault(ok)
        /\ term' = IF ok THEN ClearAndRender(term, line) ELSE term
    /\ calls' = calls + 1
    /\ UNCHANGED <<monFlow, listVars, histVars, wrResult, keys, runtime, life, rawMode,
                   paused, pauseBuffer, line, lineChan, writerAlive, rxOpen, monShut,
                   rlShut, monPc, monSig, monBuf, rlPc, rlItem, rlResult, mutex, nextLine,
                   ctlSent, inputsLeft>>

\* Readline::clear: queue(Clear(All))?, clear_and_render(..)?, flush()?, each under
\* its own lock of the terminal; a `?` returns with what was written so far.
Clear ==
    /\ OthersRun
    /\ Live
    /\ rlPc = "idle"
    /\ calls < MaxCalls
    /\ mutex["lineState"] = "free"
    /\ mutex["term"] = "free"
    /\ \E o \in {"ok"} \cup (IF faults < MaxFaults
                               THEN {"queue_err", "render_err", "flush_err"} ELSE {}) :
        /\ faults' = IF o = "ok" THEN faults ELSE faults + 1
        /\ term' = CASE o = "queue_err" -> term
                     [] o = "render_err" -> Append(term, ClearScreen)
                     [] o = "flush_err" -> ClearAndRender(Append(term, ClearScreen), line)
                     [] OTHER ->
                          FlushTerm(ClearAndRender(Append(term, ClearScreen), line))
    /\ calls' = calls + 1
    /\ UNCHANGED <<monFlow, listVars, lineCfg, histVars, wrResult, keys, runtime, life,
                   rawMode, paused, pauseBuffer, line, lineChan, writerAlive, rxOpen,
                   monShut, rlShut, monPc, monSig, monBuf, rlPc, rlItem, rlResult, mutex,
                   nextLine, ctlSent, inputsLeft>>

\* Readline::should_print_line_on(enter, control_c): under the LineState lock, sets
\* the two flags.
ShouldPrintLineOn ==
    /\ OthersRun
    /\ Live
    /\ rlPc = "idle"
    /\ calls < MaxCalls
    /\ mutex["lineState"] = "free"
    /\ \E e \in BOOLEAN, c \in BOOLEAN :
        lineCfg' = [lineCfg EXCEPT !.enter = e, !.control_c = c]
    /\ calls' = calls + 1
    /\ UNCHANGED <<monFlow, listVars, histVars, wrResult, keys, runtime, life, rawMode,
                   paused, pauseBuffer, line, term, lineChan, writerAlive, rxOpen, monShut,
                   rlShut, monPc, monSig, monBuf, rlPc, rlItem, rlResult, mutex, nextLine,
                   ctlSent, inputsLeft, faults>>

\* ------------------------------------------------------------------------
\* The engine with every public method of Readline called between readline()
\* calls, on a terminal that does not fail: one Line signal and one call of
\* update_prompt / clear / should_print_line_on, with either two control signals
\* and one history entry while the user types nothing, or one control signal and
\* one input item.
FrameInit ==
    /\ runtime = "current_thread"
    /\ life = "none"
    /\ rawMode = FALSE
    /\ paused = FALSE
    /\ pauseBuffer = <<>>
    /\ line = <<>>
    /\ term = <<>>
    /\ lineChan = <<>>
    /\ writerAlive = FALSE
    /\ rxOpen = FALSE
    /\ monShut = FALSE
    /\ rlShut = FALSE
    /\ monPc = "unspawned"
    /\ monSig = NoSig
    /\ monBuf = 0
    /\ monFlow = "none"
    /\ rlPc = "idle"
    /\ rlItem = NoItem
    /\ rlResult = NoResult
    /\ mutex = [m \in Mutexes |-> "free"]
    /\ nextLine = MaxLines
    /\ \/ ctlSent = 0 /\ inputsLeft = 0 /\ histAdds = MaxHistAdds - 1
       \/ ctlSent = MaxCtl - 1 /\ inputsLeft = MaxInputs /\ histAdds = MaxHistAdds
    /\ faults = MaxFaults
    /\ keys = <<>>
    /\ histChan = <<>>
    /\ history = <<>>
    /\ maxSize = HistorySizeMax
    /\ cursor = 0
    /\ wrResult = "none"
    /\ lineCfg = DefaultCfg
    /\ calls = 0
    /\ ListInit

FrameNext ==
    \/ Next
    \/ RlHistory
    \/ AddHistoryEntry
    \/ SetMaxHistory
    \/ UpdatePrompt
    \/ Clear
    \/ ShouldPrintLineOn

FrameSpec == FrameInit /\ [][FrameNext]_vars

\* ------------------------------------------------------------------------
\* SafeListManager::push / clear and the iterate_over_vec_* macros
\* (src/redux/async_list_manager.rs 40-105).  tokio's RwLock serves its waiters
\* first come first: a reader that arrives behind a waiting writer waits too.

\* Everything of the Readline engine, which the list manager does not touch.
engineVars == <<runtime, life, rawMode, paused, pauseBuffer, line, term, lineChan,
                writerAlive, rxOpen, monShut, rlShut, monPc, monSig, monBuf, monFlow, rlPc,
                rlItem,
                rlResult, mutex, nextLine, ctlSent, inputsLeft, faults, keys, histVars,
                wrResult, cfgVars>>

\* push(item): `arc.write().await` is reached.
PushCall ==
    /\ pushes < MaxPushes
    /\ \E w \in Writers :
        /\ listPc[w] = "idle"
        /\ listPc' = [listPc EXCEPT ![w] = "wait"]
        /\ listOp' = [listOp EXCEPT ![w] = ListOp("push", pushes + 1)]
        /\ listWait' = Append(listWait, w)
    /\ pushes' = pushes + 1
    /\ UNCHANGED <<monFlow, engineVars, list, listHeld, itIdx, itSeen, itSnap, itResults>>

\* clear(): `arc.write().await` is reached.
ClearCall ==
    /\ \E w \in Writers :
        /\ listPc[w] = "idle"
        /\ listPc' = [listPc EXCEPT ![w] = "wait"]
        /\ listOp' = [listOp EXCEPT ![w] = ListOp("clear", 0)]
        /\ listWait' = Append(listWait, w)
    /\ UNCHANGED <<monFlow, engineVars, list, listHeld, itIdx, itSeen, itSnap, itResults,
                   pushes>>

\* The write lock granted although readers hold the lock.
WriteGrantDespiteReaders ==
    /\ listWait # <<>>
    /\ Head(listWait) \in Writers
    /\ listHeld \cap Writers = {}
    /\ listHeld' = listHeld \cup {Head(listWait)}
    /\ listWait' = Tail(listWait)
    /\ listPc' = [listPc EXCEPT ![Head(listWait)] = "locked"]
    /\ UNCHANGED <<monFlow, engineVars, list, listOp, itIdx, itSeen, itSnap, itResults,
                   pushes>>

\* `arc.write().await` completes: the first waiter is this writer and nobody holds
\* the lock.
WriteGrant ==
    /\ listWait # <<>>
    /\ Head(listWait) \in Writers
    /\ listHeld = {}
    /\ listHeld' = {Head(listWait)}
    /\ listWait' = Tail(listWait)
    /\ listPc' = [listPc EXCEPT ![Head(listWait)] = "locked"]
    /\ UNCHANGED <<monFlow, engineVars, list, listOp, itIdx, itSeen, itSnap, itResults,
                   pushes>>

\* `locked_list.push(item)` / `locked_list.clear()`, then the guard is dropped as
\* the function returns.
WriteList ==
    /\ \E w \in Writers :
        /\ listPc[w] = "locked"
        /\ list' = IF listOp[w].op = "push" THEN Append(list, listOp[w].item) ELSE <<>>
        /\ listHeld' = listHeld \ {w}
        /\ listPc' = [listPc EXCEPT ![w] = "idle"]
        /\ listOp' = [listOp EXCEPT ![w] = NoListOp]
    /\ UNCHANGED <<monFlow, engineVars, listWait, itIdx, itSeen, itSnap, itResults,
                   pushes>>

\* One of the macros is entered: `locked_list.read().await` is reached, with a
\* fresh $results.
IterCall ==
    /\ \E t \in Iterators, k \in IterKinds :
        /\ listPc[t] = "idle"
        /\ listPc' = [listPc EXCEPT ![t] = "wait"]
        /\ listOp' = [listOp EXCEPT ![t] = ListOp(k, 0)]
        /\ listWait' = Append(listWait, t)
        /\ itIdx' = [itIdx EXCEPT ![t] = 0]
        /\ itSeen' = [itSeen EXCEPT ![t] = <<>>]
        /\ itSnap' = [itSnap EXCEPT ![t] = <<>>]
        /\ itResults' = [itResults EXCEPT ![t] = <<>>]
    /\ UNCHANGED <<monFlow, engineVars, list, listHeld, pushes>>

\* `locked_list.read().await` completes: the first waiter is this reader and no
\* writer holds the lock; list_r.iter() starts at the first element.
ReadGrant ==
    /\ listWait # <<>>
    /\ Head(listWait) \in Iterators
    /\ listHeld \cap Writers = {}
    /\ listHeld' = listHeld \cup {Head(listWait)}
    /\ listWait' = Tail(listWait)
    /\ listPc' = [listPc EXCEPT ![Head(listWait)] = "iter"]
    /\ itIdx' = [itIdx EXCEPT ![Head(listWait)] = 1]
    /\ itSnap' = [itSnap EXCEPT ![Head(listWait)] = list]
    /\ UNCHANGED <<monFlow, engineVars, list, listOp, itSeen, itResults, pushes>>

\* `for item_fn in list_r.iter()`: the next element is passed to $lambda.
IterNext ==
    /\ \E t \in Iterators :
        /\ listPc[t] = "iter"
        /\ itIdx[t] <= Len(list)
        /\ itSeen' = [itSeen EXCEPT ![t] = Append(itSeen[t], list[itIdx[t]])]
        /\ listPc' = [listPc EXCEPT ![t] = "callback"]
    /\ UNCHANGED <<monFlow, engineVars, list, listHeld, listWait, listOp, itIdx, itSnap,
                   itResults, pushes>>

\* $lambda(&item_fn) returns (for the async macros: its future completes); only
\* iterate_over_vec_with_results_async keeps the action of an Ok(Some(action)).
CallbackResults == {"OkSome", "OkNone", "Err"}

IterCallbackDone ==
    /\ \E t \in Iterators, r \in CallbackResults :
        /\ listPc[t] = "callback"
        /\ itResults' = [itResults EXCEPT ![t] =
                            IF listOp[t].op = "with_results_async" /\ r = "OkSome"
                              THEN Append(itResults[t], itSeen[t][Len(itSeen[t])])
                              ELSE itResults[t]]
        /\ itIdx' = [itIdx EXCEPT ![t] = itIdx[t] + 1]
        /\ listPc' = [listPc EXCEPT ![t] = "iter"]
    /\ UNCHANGED <<monFlow, engineVars, list, listHeld, listWait, listOp, itSeen, itSnap,
                   pushes>>

\* The iterator is exhausted and the block the macro was expanded in ends, which
\* drops list_r (the macro's statements are not a block of their own).
IterEnd ==
    /\ \E t \in Iterators :
        /\ listPc[t] = "iter"
        /\ itIdx[t] > Len(list)
        /\ listHeld' = listHeld \ {t}
        /\ listPc' = [listPc EXCEPT ![t] = "idle"]
        /\ listOp' = [listOp EXCEPT ![t] = NoListOp]
    /\ UNCHANGED <<monFlow, engineVars, list, listWait, itIdx, itSeen, itSnap, itResults,
                   pushes>>

ListNext ==
    \/ PushCall
    \/ ClearCall
    \/ WriteGrant
    \/ WriteList
    \/ IterCall
    \/ ReadGrant
    \/ IterNext
    \/ IterCallbackDone
    \/ IterEnd

ListSpec == Init /\ [][ListNext]_vars

\* The multi-thread runtime (tokio's default): the spawned monitor runs in parallel
\* with the task that calls readline(), and only the mutexes order their steps.
\* The run starts with all but one Line signal of the budget used up.
ParInit ==
    /\ runtime = "multi_thread"
    /\ life = "none"
    /\ rawMode = FALSE
    /\ paused = FALSE
    /\ pauseBuffer = <<>>
    /\ line = <<>>
    /\ term = <<>>
    /\ lineChan = <<>>
    /\ writerAlive = FALSE
    /\ rxOpen = FALSE
    /\ monShut = FALSE
    /\ rlShut = FALSE
    /\ monPc = "unspawned"
    /\ monSig = NoSig
    /\ monBuf = 0
    /\ monFlow = "none"
    /\ rlPc = "idle"
    /\ rlItem = NoItem
    /\ rlResult = NoResult
    /\ mutex = [m \in Mutexes |-> "free"]
    /\ nextLine = MaxLines
    /\ ctlSent = 0
    /\ inputsLeft = MaxInputs
    /\ faults = 0
    /\ keys = <<>>
    /\ histChan = <<>>
    /\ history = <<>>
    /\ maxSize = HistorySizeMax
    /\ histAdds = 0
    /\ cursor = 0
    /\ wrResult = "none"
    /\ lineCfg = DefaultCfg
    /\ calls = 0
    /\ ListInit

ParSpec == ParInit /\ [][Next]_vars

\* ------------------------------------------------------------------------
\* What the claims are stated in.

\* The payloads written to the terminal, in the order they were written.
RECURSIVE DataSeq(_)
DataSeq(t) ==
    IF t = <<>> THEN <<>>
    ELSE IF Head(t).k = "D" THEN <<Head(t).v>> \o DataSeq(Tail(t))
    ELSE DataSeq(Tail(t))

Count(sq, x) == Cardinality({i \in 1..Len(sq) : sq[i] = x})

\* readline() returns a ReadlineEvent to its caller in this step.
RlReturnsEvent == rlPc # "idle" /\ rlPc' = "idle" /\ rlResult'.k = "Line"
\* readline() returns (an event or an error) in this step.
RlReturns == rlPc # "idle" /\ rlPc' = "idle" /\ rlResult' # NoResult

\* C1: while paused (from the step that processed Pause to the step that processes
\* the next Resume) no step writes a payload to the terminal, every Line signal the
\* monitor received goes to the push_back branch and is appended there to the
\* PauseBuffer, and nothing else changes the PauseBuffer: its length grows by one
\* per Line signal received while paused.
PausedLinesAreBuffered ==
    [][paused =>
        /\ DataSeq(term') = DataSeq(term)
        /\ (monPc = "process" /\ monSig.type = "Line" /\ monPc' # monPc
              => monPc' = "line_push")
        /\ IF monPc = "line_push" /\ monPc' # monPc
             THEN pauseBuffer' = Append(pauseBuffer, monSig.buf)
             ELSE pauseBuffer' = pauseBuffer]_vars

\* C1 witness: two Line signals were received while paused and both are buffered,
\* none of them on the terminal.
PausedWithTwoBuffered ==
    /\ paused
    /\ monPc = "await"
    /\ pauseBuffer = <<1, 2>>
    /\ DataSeq(term) = <<>>

\* C2 (as claimed): processing Resume sets paused to false, each buffered entry
\* popped by the drain of a Resume is written to the terminal (so the entries
\* appear in FIFO order), the PauseBuffer is empty when the processing of Resume
\* ends, and a later Line payload is written only when nothing is left buffered.
ResumeWritesBufferFirst ==
    [][/\ (monPc = "process" /\ monSig.type = "Resume" => paused' = FALSE)
       /\ (monPc = "fl_pd_print" /\ monSig.type = "Resume"
             => DataSeq(term') = Append(DataSeq(term), monBuf))
       /\ (monSig.type = "Resume" /\ monPc # "await" /\ monPc' = "await"
             => pauseBuffer' = <<>>)
       /\ (monPc = "line_print" /\ term' # term => pauseBuffer = <<>>)]_vars

\* C3 (as claimed): readline() returns a ReadlineEvent only when no drain is
\* outstanding: the monitor is paused, or the PauseBuffer is empty.
NoEventBeforeDrained ==
    [][RlReturnsEvent => (paused \/ pauseBuffer = <<>>)]_vars

\* C4 (as claimed): while the monitor runs, every payload sent so far is in
\* exactly one place: in the channel or in the signal being processed, in the
\* PauseBuffer (or popped from it and about to be printed), or on the terminal,
\* once.  A buffered payload is neither dropped nor written twice.
InFlight(p) ==
    Count(lineChan, Sig("Line", p))
    + (IF monSig = Sig("Line", p)
          /\ monPc \in {"process", "line_push", "line_lock_ls", "line_print"}
       THEN 1 ELSE 0)
Buffered(p) == Count(pauseBuffer, p) + (IF monBuf = p THEN 1 ELSE 0)
BufferedWrittenExactlyOnce ==
    monPc # "done" =>
        \A p \in 1..(nextLine - 1) :
            InFlight(p) + Buffered(p) + Count(DataSeq(term), p) = 1

\* C5 (as claimed): the payloads on the terminal are in the order they were sent
\* (payloads are numbered in sending order), and no payload is on the terminal
\* while an earlier one still waits in the PauseBuffer.
TerminalInSubmissionOrder ==
    /\ \A i, j \in 1..Len(DataSeq(term)) :
          i < j => DataSeq(term)[i] < DataSeq(term)[j]
    /\ \A i \in 1..Len(DataSeq(term)), j \in 1..Len(pauseBuffer) :
          DataSeq(term)[i] < pauseBuffer[j]

\* C6: every payload on the terminal is directly preceded by the erasure of the
\* prompt region and directly followed by a render of prompt + line; the prompt
\* region is erased between any two renders (the prompt shows once); and the last
\* thing written (flushes aside) is a render of the prompt with the current line:
\* the prompt is at the bottom, after all background data.
LastWrite(t) ==
    IF t[Len(t)] = FlushTok /\ Len(t) > 1 THEN t[Len(t) - 1] ELSE t[Len(t)]
PromptRedrawnAroundData ==
    /\ \A i \in 1..Len(term) :
         term[i].k = "D" =>
            /\ i > 1 /\ term[i - 1] = Erase
            /\ i < Len(term) /\ term[i + 1].k = "R"
    /\ \A i, j \in 1..Len(term) :
         i < j /\ term[i].k = "R" /\ term[j].k = "R" =>
            \E k \in (i + 1)..(j - 1) : term[k] = Erase
    /\ term # <<>> => LastWrite(term) = Render(line)

\* C6 witness: a payload written at once, a payload written by a drain and the
\* echo of an input line are all on the terminal.
DataAndInputOnTerminal ==
    /\ Len(DataSeq(term)) >= 2
    /\ \E i \in 1..Len(term) : term[i].k = "P"
    /\ paused = FALSE
    /\ monPc = "await"
    /\ ctlSent >= 2

\* ------------------------------------------------------------------------
\* Fairness.  The code between two await points is synchronous, so a task that left
\* its select! finishes the branch (weak fairness of the steps after the select);
\* select! picks at random among its ready branches, so a shutdown branch that is
\* ready again and again is taken (strong fairness of the shutdown branches).
MonSync ==
    \/ MonClosed
    \/ MonLineCheck
    \/ MonLinePush
    \/ MonLineLockLineState
    \/ MonLinePrint
    \/ MonLineFlush
    \/ MonPause
    \/ MonResume
    \/ MonFlush
    \/ FlushCheck
    \/ FlushLockBuffer
    \/ FlushPop
    \/ FlushLockLineState
    \/ FlushPrint
    \/ FlushRender
    \/ FlushFlush

RlSync ==
    \/ RlLockTerm
    \/ RlProcessNoEvent
    \/ RlProcessEvent

\* The liveness runs start with all but one Line signal of the budget used up.
FairInit ==
    /\ runtime = "current_thread"
    /\ life = "none"
    /\ rawMode = FALSE
    /\ paused = FALSE
    /\ pauseBuffer = <<>>
    /\ line = <<>>
    /\ term = <<>>
    /\ lineChan = <<>>
    /\ writerAlive = FALSE
    /\ rxOpen = FALSE
    /\ monShut = FALSE
    /\ rlShut = FALSE
    /\ monPc = "unspawned"
    /\ monSig = NoSig
    /\ monBuf = 0
    /\ monFlow = "none"
    /\ rlPc = "idle"
    /\ rlItem = NoItem
    /\ rlResult = NoResult
    /\ mutex = [m \in Mutexes |-> "free"]
    /\ nextLine = MaxLines
    /\ ctlSent = 0
    /\ inputsLeft = MaxInputs
    /\ faults = 0
    /\ keys = <<>>
    /\ histChan = <<>>
    /\ history = <<>>
    /\ maxSize = HistorySizeMax
    /\ histAdds = 0
    /\ cursor = 0
    /\ wrResult = "none"
    /\ lineCfg = DefaultCfg
    /\ calls = 0
    /\ ListInit

FairSpec ==
    /\ FairInit
    /\ [][Next]_vars
    /\ WF_vars(MonSync)
    /\ WF_vars(RlSync)
    /\ SF_vars(MonShutdown)
    /\ SF_vars(RlShutdown)

\* C8: a readline() call that is waiting in its select loop when the shutdown
\* signal arrives returns; with no input item left to make it return first, it
\* returns Err(ReadlineError::Closed).
ShutdownEndsPendingReadline ==
    /\ (rlPc = "await" /\ rlShut) ~> (rlPc = "idle" /\ rlResult # NoResult)
    /\ (rlPc = "await" /\ rlShut /\ inputsLeft = 0)
          ~> (rlPc = "idle" /\ rlResult = Res("Closed", <<>>))

\* C8 witness: a readline() call was ended by the shutdown signal.
ReadlineEndedByShutdown ==
    /\ rlPc = "idle"
    /\ rlResult = Res("Closed", <<>>)
    /\ life = "alive"

\* C9: once a shutdown message waits in the monitor's receiver the monitor task
\* ends, whatever the line channel still holds; and a monitor that has ended never
\* runs again: it takes nothing from the channel and changes neither the paused
\* flag, the PauseBuffer nor the terminal.
MonitorExitsOnShutdown ==
    /\ (monShut /\ monPc # "done") ~> (monPc = "done")
    /\ [][monPc = "done" => /\ monPc' = "done"
                            /\ monSig' = NoSig
                            /\ paused' = paused
                            /\ pauseBuffer' = pauseBuffer
                            /\ DataSeq(term') = DataSeq(term)]_vars

\* C9 witness: the monitor ended on the shutdown signal of a drop while a signal was
\* still waiting in the channel's place (sent, never processed).
MonitorExitedAfterDrop ==
    /\ monPc = "done"
    /\ life = "dropped"
    /\ nextLine = MaxLines + 1
    /\ DataSeq(term) = <<>>
    /\ pauseBuffer = <<>>
    /\ faults = 0

\* C7 (as claimed): once close() has been called, a readline() call on the instance
\* does not wait for input: whenever it is suspended in its select loop, the
\* shutdown branch is ready, and what it returns is Err(ReadlineError::Closed).
ReadlineAfterCloseIsClosed ==
    [][/\ (life' = "closed" /\ rlPc' = "await" => rlShut')
       /\ (life = "closed" /\ RlReturns => rlResult' = Res("Closed", <<>>))]_vars

\* C10 (as claimed): with every SharedWriter dropped and everything written to
\* them output (the channel is empty and the monitor has seen it closed), a
\* readline() call finds its Closed branch ready when it reaches its select loop,
\* and what it returns is Err(ReadlineError::Closed).
WritersGone == Live /\ ~writerAlive /\ lineChan = <<>> /\ monPc = "done"
ReadlineAfterWritersGoneIsClosed ==
    [][/\ (WritersGone /\ rlPc = "idle" /\ rlPc' = "await" => rlShut')
       /\ (WritersGone /\ RlReturns => rlResult' = Res("Closed", <<>>))]_vars

\* ------------------------------------------------------------------------
\* C11 (as claimed): in the state right after close() returns, terminal raw mode
\* is off.
CloseDisablesRawMode ==
    [][life = "alive" /\ life' = "closed" => ~rawMode']_vars

\* C12 (as claimed): whenever no Readline instance is alive (none was constructed
\* yet, Readline::new returned an error, or the instance was dropped) terminal raw
\* mode is disabled.
RawModeScoped ==
    life \in {"none", "failed", "dropped"} => ~rawMode

\* C17 (as claimed): a non-empty PauseBuffer means that the monitor is paused or
\* in the middle of a drain (flush_internal is running); so when the monitor is
\* back at its select! with paused = false, the PauseBuffer is empty.
Draining ==
    monPc \in {"fl_check", "fl_lock_buf", "fl_pop", "fl_pd_lock_ls", "fl_pd_print",
               "fl_cr_lock_ls", "fl_cr_render", "fl_flush"}
BufferedOnlyWhilePausedOrDraining ==
    pauseBuffer # <<>> => (paused \/ Draining)

\* C18: processing Pause changes nothing but the paused flag; and processing a
\* Resume that has nothing to drain (no Line arrived since the Pause) leaves
\* the PauseBuffer empty and LineState unchanged, ends with paused = false, and
\* writes nothing to the terminal except a redraw of prompt + line (erase, render)
\* and a flush.
RedrawOnly(t, t2, l) == t2 \in {t, ClearAndRender(t, l), FlushTerm(t)}
PauseThenResumeIsNoOp ==
    [][/\ (monPc = "process" /\ monSig.type = "Pause" /\ monPc' # monPc
            => /\ paused'
               /\ pauseBuffer' = pauseBuffer
               /\ line' = line
               /\ term' = term)
       /\ (monSig.type = "Resume" /\ pauseBuffer = <<>> /\ monBuf = 0 /\ monPc' # monPc
            => /\ paused' = FALSE
               /\ pauseBuffer' = <<>>
               /\ line' = line
               /\ RedrawOnly(term, term', line))]_vars

\* C18 witness: the only two signals sent were a Pause and then a Resume (any other
\* pair leaves the monitor paused or redraws twice), and both were processed.
PausedThenResumed ==
    /\ ctlSent = 2
    /\ nextLine = 1
    /\ lineChan = <<>>
    /\ monPc = "await"
    /\ paused = FALSE
    /\ pauseBuffer = <<>>
    /\ Count(term, Erase) = 1
    /\ faults = 0
    /\ keys = <<>>

\* The mutexes a task holds, and the one it is about to lock.
Held(who) == {m \in Mutexes : mutex[m] = who}
MonWants ==
    CASE monPc = "process" /\ monSig.type \in {"Line", "Pause", "Resume"} -> {"paused"}
      [] monPc = "fl_check" -> {"paused"}
      [] monPc \in {"line_push", "fl_lock_buf"} -> {"buffer"}
      [] monPc \in {"line_lock_ls", "fl_pd_lock_ls", "fl_cr_lock_ls"} -> {"lineState"}
      [] monPc \in {"line_print", "line_flush", "fl_pd_print", "fl_cr_render",
                    "fl_flush"} -> {"term"}
      [] OTHER -> {}
RlWants ==
    CASE rlPc = "lock_term" -> {"term"}
      [] rlPc = "process_event" /\ rlItem.k \in {"Char", "Enter"} -> {"lineState"}
      [] OTHER -> {}

\* The documented order: paused, PauseBuffer, LineState, raw_terminal.
LockOrder == <<"paused", "buffer", "lineState", "term">>
Before(a, b) ==
    \E i, j \in 1..Len(LockOrder) : i < j /\ LockOrder[i] = a /\ LockOrder[j] = b

\* C19 (as claimed): a task that is about to lock a mutex holds only mutexes that
\* come before it in the order paused, PauseBuffer, LineState, raw_terminal (so
\* LineState is never locked by a task that holds raw_terminal), and the two
\* tasks never wait for a mutex the other one holds.
LockOrderRespected ==
    /\ \A w \in MonWants : \A h \in Held("mon") : Before(h, w)
    /\ \A w \in RlWants : \A h \in Held("rl") : Before(h, w)
    /\ ~(\E w \in MonWants, v \in RlWants : mutex[w] = "rl" /\ mutex[v] = "mon")

\* C20: a task suspended at its select! (or not running at all) holds no mutex.
NoMutexAcrossAwait ==
    /\ MonAtRest => Held("mon") = {}
    /\ RlAtRest => Held("rl") = {}

\* C20 witness: both tasks are suspended, the monitor after flush_internal was left
\* early by a failed write (with the PauseBuffer and LineState locked at that
\* point), readline() after it handled a key.
SuspendedAfterCriticalSections ==
    /\ monPc = "await"
    /\ rlPc = "await"
    /\ line # <<>>
    /\ pauseBuffer # <<>>
    /\ ~paused

\* ------------------------------------------------------------------------
\* The line typed so far according to the input stream: the characters it yielded
\* since its last Enter.
RECURSIVE Typed(_)
Typed(ks) ==
    IF ks = <<>> THEN <<>>
    ELSE LET k == ks[Len(ks)]
             rest == SubSeq(ks, 1, Len(ks) - 1)
         IN  IF k.k = "Enter" THEN <<>>
             ELSE IF k.k = "Char" THEN Append(Typed(rest), k.c)
             ELSE Typed(rest)

ReturnedLineIsInHistoryChannel ==
    [][RlReturnsEvent /\ rlResult'.v # <<>>
        => \E i \in 1..Len(histChan') : histChan'[i] = rlResult'.v]_vars

\* C15: History.entries never holds more than max_size entries, and the entries
\* it holds are the newest ones it received, newest first (the k-th entry sent has
\* length k); a step that takes an entry from the history channel leaves
\* min(len + 1, max_size) entries, and any other step, set_max_history(n) with
\* max_size = n afterwards among them, leaves min(len, max_size) entries.
HistoryBounded ==
    /\ [](Len(history) <= maxSize)
    /\ [](\A i \in 1..Len(history) :
            Len(history[i]) = (histAdds - Len(histChan)) - i + 1)
    /\ [][IF Len(histChan') < Len(histChan)
            THEN Len(history') = Min(Len(history) + 1, maxSize)
            ELSE Len(history') = Min(Len(history), maxSize')]_vars

\* C15 witness: two entries were appended and only the newer one is left, under
\* max_size = 1.
OnlyNewestEntryLeft ==
    /\ histAdds = 2
    /\ histChan = <<>>
    /\ maxSize = 1
    /\ history = <<HistEntry(2)>>

\* C16: whenever no input item is being processed (readline() is suspended, has
\* returned or was dropped while waiting) and no terminal operation has failed,
\* LineState.line is exactly the line typed so far: every item the input stream
\* yielded was applied once, and a dropped call took nothing with it.
CancelKeepsTypedLine ==
    (RlAtRest /\ faults = 0) => line = Typed(keys)

\* C16 witness: a readline() call was dropped while waiting (it returned nothing)
\* after two characters had been typed, and both are still in LineState.line.
CancelledWithLineTyped ==
    /\ rlPc = "idle"
    /\ rlResult = NoResult
    /\ line = <<"a", "b">>
    /\ faults = 0

\* ------------------------------------------------------------------------
\* C21: once the monitor has left its loop the receiver is closed or dropped, so
\* no later write or flush of a SharedWriter succeeds or is queued: the channel
\* stays empty, no signal is accepted, the only result a writer can get is
\* BrokenPipe, and a live writer is never blocked (the failing send is enabled,
\* whatever the channel held when it was closed).
ClosedChannelFailsWrites ==
    [][monPc = "done" =>
         /\ ~rxOpen
         /\ lineChan = <<>> /\ lineChan' = <<>>
         /\ nextLine' = nextLine
         /\ ctlSent' = ctlSent
         /\ wrResult' \in {wrResult, "BrokenPipe"}
         /\ (writerAlive /\ OthersRun => ENABLED SendClosed)]_vars

\* A producer's write failed with BrokenPipe after the monitor had closed the
\* receiver on a terminal error while printing the first line, with the Readline
\* still alive.
WriteFailedAfterMonitorError ==
    /\ wrResult = "BrokenPipe"
    /\ monPc = "done"
    /\ faults = 1
    /\ life = "alive"
    /\ nextLine = 2
    /\ writerAlive

\* ------------------------------------------------------------------------
\* C22: a terminal write or flush that fails while the monitor processes a signal
\* (Line, Flush or Resume) makes the monitor close the line channel and leave its
\* loop.
MonSinkSteps == {"line_print", "line_flush", "fl_pd_print", "fl_cr_render", "fl_flush"}

SinkErrorEndsMonitor ==
    [][(monPc \in MonSinkSteps /\ monPc' # monPc /\ faults' # faults) =>
         (monPc' = "done" /\ ~rxOpen')]_vars

\* ------------------------------------------------------------------------
\* C23: the monitor's step that processes a Pause signal sets paused to true and
\* changes nothing else of the editor: PauseBuffer, LineState, History (entries,
\* bound, cursor and the pending channel) and the terminal are as before, whatever
\* paused and the PauseBuffer were.
PauseOnlySetsPaused ==
    [][(monPc = "process" /\ monSig.type = "Pause" /\ monPc' # monPc) =>
         /\ paused'
         /\ monPc' = "await"
         /\ UNCHANGED <<pauseBuffer, monBuf, line, term, histVars, rxOpen, lineChan>>]_vars

\* Line 1 was printed, then the one control signal sent was processed and left
\* paused true (so it was Pause): the terminal still shows exactly line 1.
PausedAfterPrintedLine ==
    /\ paused
    /\ ctlSent = 1
    /\ nextLine = 2
    /\ monPc = "await"
    /\ lineChan = <<>>
    /\ pauseBuffer = <<>>
    /\ DataSeq(term) = <<1>>
    /\ faults = 0

\* ------------------------------------------------------------------------
\* C24: while paused, every step the monitor takes for a Flush signal keeps paused
\* true, keeps the PauseBuffer as it is and appends nothing to the terminal, and
\* flush_internal returns from its guard straight to the select! loop.
FlushWhilePausedIsNoOp ==
    [][(monSig.type = "Flush" /\ paused /\ monPc' # monPc) =>
         /\ monPc \in {"process", "fl_check"}
         /\ monPc = "fl_check" => monPc' = "await"
         /\ paused'
         /\ UNCHANGED <<pauseBuffer, monBuf, term, line, faults>>]_vars

\* flush_internal has been entered for a Flush signal while paused, with two lines
\* waiting in the PauseBuffer.
FlushArrivedWhilePaused ==
    /\ monPc = "fl_check"
    /\ monSig.type = "Flush"
    /\ paused
    /\ pauseBuffer = <<1, 2>>
    /\ DataSeq(term) = <<>>

\* ------------------------------------------------------------------------
\* C25: the step in which process_event gets an item without an event changes
\* nothing of the editor (LineState, History, paused, PauseBuffer, terminal): on
\* None the call goes back to waiting with no result, on Some(Err(e)) it returns
\* Err(IO).
NoEventItemsChangeNothing ==
    [][(rlPc = "process_event" /\ rlItem.k \in {"None", "Err"} /\ rlPc' # rlPc) =>
         /\ UNCHANGED <<line, histVars, paused, pauseBuffer, term, faults>>
         /\ rlItem.k = "None" => (rlPc' = "await" /\ rlResult' = rlResult)
         /\ rlItem.k = "Err" => (rlPc' = "idle" /\ rlResult' = Res("IO", <<>>))]_vars

\* The stream yielded a, None, Err: the call returned the I/O error and the typed
\* character is still in the line; no terminal operation failed.
StreamErrorReturnedLineKept ==
    /\ keys = <<Item("Char", "a"), Item("None", ""), Item("Err", "")>>
    /\ rlPc = "idle"
    /\ rlResult = Res("IO", <<>>)
    /\ line = <<"a">>
    /\ faults = 0

\* ------------------------------------------------------------------------
\* C26: in the step that handles an input event, when handle_event has written its
\* output the terminal is flushed before the call waits again or returns an event
\* (the last thing on the terminal is then the flush, and no operation failed);
\* when what handle_event wrote is left unflushed, the flush failed and the call
\* returns Err(IO).
HandledEvent == rlPc = "process_event" /\ rlItem.k \in {"Char", "Enter"} /\ rlPc' # rlPc

FlushedBeforeReturnOrWait ==
    [][HandledEvent =>
         /\ (rlPc' = "await" \/ rlResult'.k = "Line") =>
               /\ Len(term') > Len(term)
               /\ term'[Len(term')] = FlushTok
               /\ faults' = faults
         /\ (Len(term') > Len(term) /\ term'[Len(term')] # FlushTok) =>
               /\ faults' = faults + 1
               /\ rlPc' = "idle"
               /\ rlResult' = Res("IO", <<>>)
         /\ faults' = faults => term'[Len(term')] = FlushTok]_vars

\* The character a was handled and rendered, the flush after it failed, and the
\* call returned the I/O error.
FlushFailedAfterHandledChar ==
    /\ keys = <<Item("Char", "a")>>
    /\ line = <<"a">>
    /\ term[Len(term)] = Render(<<"a">>)
    /\ faults = 1
    /\ rlPc = "idle"
    /\ rlResult = Res("IO", <<>>)

\* ------------------------------------------------------------------------
\* C27: the History's navigation cursor is 0 (no selection) or the index of an
\* entry it holds: it never exceeds the number of entries.
CursorWithinEntries == cursor \in 0..Len(history)

\* ------------------------------------------------------------------------
\* C28: add_history_entry only enqueues: the step of the k-th call leaves the
\* History as it is and puts entry k at the back of the history channel.  The
\* History gets an entry only in a step of a suspended readline() call that takes
\* the channel's front entry.  So the channel holds the latest calls' entries in
\* call order and the History (newest first) holds older ones, newest call first.
PendingInCallOrder ==
    \A i \in 1..Len(histChan) : histChan[i] = HistEntry(histAdds - Len(histChan) + i)

AppendedInCallOrder ==
    /\ \A i \in 1..Len(history) : Len(history[i]) \in 1..(histAdds - Len(histChan))
    /\ \A i, j \in 1..Len(history) : i < j => Len(history[i]) > Len(history[j])

HistoryFedByChannelInOrder ==
    [][/\ PendingInCallOrder /\ PendingInCallOrder'
       /\ AppendedInCallOrder /\ AppendedInCallOrder'
       /\ histAdds' # histAdds =>
            /\ history' = history
            /\ histChan' = Append(histChan, HistEntry(histAdds'))
       /\ (history' # history /\ maxSize' = maxSize) =>
            /\ rlPc = "await" /\ rlPc' = "await"
            /\ histChan # <<>>
            /\ histChan' = Tail(histChan)
            /\ history' = HistoryAppend(history, Head(histChan), maxSize)]_vars

\* Within one readline() call the Up key was handled (with nothing to recall) while
\* both entries were still waiting in the channel; then the first was appended.
UpHandledBeforePendingEntry ==
    /\ keys = <<Item("Up", "")>>
    /\ rlPc = "await"
    /\ line = <<>>
    /\ cursor = 0
    /\ history = <<HistEntry(1)>>
    /\ histChan = <<HistEntry(2)>>
    /\ term[Len(term)] = FlushTok
    /\ faults = 0

\* ------------------------------------------------------------------------
\* C29: what readline() does with the input is a function of the input alone,
\* whatever paused is and however it changes in between.  Whenever the call is at
\* rest the line is what the stream's items say was typed; an event is returned
\* exactly by the step that handles an Enter and is Line(what was typed before it);
\* the step that handles an event writes to the terminal what handle_event writes
\* for that event and line, then the flush; and it leaves paused and the
\* PauseBuffer alone.
KeysBefore == SubSeq(keys, 1, Len(keys) - 1)

PausedGatesOnlyWriterOutput ==
    [][/\ RlAtRest' => line' = Typed(keys')
       /\ HandledEvent =>
            /\ term' = FlushTerm(HandleEventTerm(rlItem, term, line))
            /\ rlResult' = IF rlItem.k = "Enter" THEN Res("Line", Typed(KeysBefore))
                                                 ELSE rlResult
            /\ rlPc' = IF rlItem.k = "Enter" THEN "idle" ELSE "await"
            /\ UNCHANGED <<paused, pauseBuffer>>
       /\ RlReturnsEvent => (HandledEvent /\ rlItem.k = "Enter")]_vars

\* The call returned Line(a) for the keys a, Enter while the writer is paused with
\* a line held back in the PauseBuffer; the echo of the line and the fresh prompt
\* are the last things on the terminal.
LineReturnedWhilePaused ==
    /\ paused
    /\ pauseBuffer = <<MaxLines>>
    /\ keys = <<Item("Char", "a"), Item("Enter", "")>>
    /\ rlResult = Res("Line", <<"a">>)
    /\ line = <<>>
    /\ SubSeq(term, Len(term) - 3, Len(term)) =
         <<Erase, Echo(<<"a">>), Render(<<>>), FlushTok>>

\* ------------------------------------------------------------------------
\* C30: nothing but an input event, a stream error, a failed terminal operation or
\* a shutdown message received by this call makes readline() return.  The step for
\* a None leaves the call suspended in its loop with no result; a call whose
\* receiver got no shutdown message returns only from the step for an item that
\* is not None; a return from the select! itself is Closed on such a message; and
\* no step reports Eof.
OnlyNoneSoFar == \A i \in 1..Len(keys) : keys[i].k = "None"

ExhaustedStreamNeverReturns ==
    [][/\ (rlPc = "process_event" /\ rlItem.k = "None" /\ rlPc' # rlPc) =>
            (rlPc' = "await" /\ rlResult' = rlResult /\ rlResult' = NoResult)
       /\ (RlReturns /\ ~rlShut) =>
            (rlPc = "process_event" /\ rlItem.k \in {"Char", "Enter", "Err"})
       /\ (RlReturns /\ rlPc = "await") => (rlShut /\ rlResult' = Res("Closed", <<>>))
       /\ (RlReturns /\ OnlyNoneSoFar') => (rlShut /\ rlResult' = Res("Closed", <<>>))
       /\ rlResult'.k # "Eof"]_vars

\* The stream has yielded None three times in one call, which is still suspended in
\* its loop with no result and has appended both pending history entries.
StillWaitingOnExhaustedStream ==
    /\ keys = <<Item("None", ""), Item("None", ""), Item("None", "")>>
    /\ rlPc = "await"
    /\ rlResult = NoResult
    /\ ~rlShut
    /\ histChan = <<>>
    /\ history = <<HistEntry(2), HistEntry(1)>>
    /\ life = "alive"

\* ------------------------------------------------------------------------
\* C31: a step that changes the paused flag or the PauseBuffer is a step of the
\* LineMonitor processing a signal; it is no step of a readline() call, of
\* update_prompt, clear, should_print_line_on, set_max_history, add_history_entry
\* or close (it changes nothing of what those change).  Once the monitor has
\* exited it stays exited, paused and the PauseBuffer never change again, and no
\* payload is written to the terminal any more.
OnlyMonitorChangesPause ==
    [][/\ (paused' # paused \/ pauseBuffer' # pauseBuffer) =>
            /\ ~MonAtRest
            /\ monSig # NoSig
            /\ monPc' # monPc
            /\ UNCHANGED <<rlPc, rlItem, rlResult, rlShut, keys, lineCfg, calls, histVars,
                           life, monShut, line>>
       /\ monPc = "done" =>
            /\ monPc' = "done"
            /\ UNCHANGED <<paused, pauseBuffer>>
            /\ DataSeq(term') = DataSeq(term)]_vars

\* The monitor exited on close() while paused, with the one line still in the
\* PauseBuffer; since Readline::new the prompt was changed, the History bound was
\* lowered, a history entry was added and then appended by a readline() call,
\* which is still waiting.  The line was never written to the terminal.
BufferedLineLeftAfterExit ==
    /\ monPc = "done"
    /\ life = "closed"
    /\ paused
    /\ pauseBuffer = <<MaxLines>>
    /\ DataSeq(term) = <<>>
    /\ lineCfg.prompt # DefaultCfg.prompt
    /\ maxSize < HistorySizeMax
    /\ history = <<HistEntry(MaxHistAdds)>>
    /\ rlPc = "await"

\* ------------------------------------------------------------------------
\* C32: push appends its item at the end and clear empties the list, each as the
\* only holder of the lock; while a task iterates (from the grant of its read lock
\* to the end of the macro, across every callback) the list is the one it had at
\* the grant and no step changes it; the callbacks are called with that list's
\* elements in order, and at the end of the iteration with all of them.
Iterating(t) == listPc[t] \in {"iter", "callback"}

SeenSoFar(t) == IF listPc[t] = "callback" THEN itIdx[t] ELSE itIdx[t] - 1

IterationSeesOneSnapshot ==
    [][/\ \A t \in Iterators :
            /\ Iterating(t) =>
                  /\ t \in listHeld
                  /\ list = itSnap[t]
                  /\ list' = list
                  /\ SeenSoFar(t) \in 0..Len(list)
                  /\ itSeen[t] = SubSeq(itSnap[t], 1, SeenSoFar(t))
            /\ (Iterating(t) /\ listPc'[t] = "idle") => itSeen'[t] = itSnap[t]
       /\ list' # list =>
            \E w \in Writers :
                /\ listHeld = {w}
                /\ listOp[w].op = "push" => list' = Append(list, listOp[w].item)
                /\ listOp[w].op = "clear" => list' = <<>>]_vars

\* Both tasks iterate over the list <<1>> at once, one suspended in its callback
\* and one past it, while a push of item 2 waits for the write lock.
PushWaitsForTwoIterations ==
    /\ list = <<1>>
    /\ listHeld = Iterators
    /\ listPc["i1"] = "callback"
    /\ listPc["i2"] = "iter"
    /\ itSeen["i2"] = <<1>>
    /\ listWait = <<"w1">>
    /\ listOp["w1"] = ListOp("push", 2)

\* ------------------------------------------------------------------------
\* C33: process_line_control_signal returns Continue or ReturnError, whatever the
\* signal and the state: ReturnError for None and for a Line whose print or flush
\* failed, Continue for everything else (also for a Flush or Resume whose drain
\* failed).  So the loop's match goes back to the select! or leaves the loop, and
\* the unreachable!() arm is never taken.
MonReturns == monSig # NoSig /\ monSig' = NoSig

MonitorNeverReachesUnreachable ==
    [][/\ monFlow' \in {"none", "Continue", "ReturnError"}
       /\ monPc' # "panicked"
       /\ MonReturns =>
            /\ monFlow' \in {"Continue", "ReturnError"}
            /\ monFlow' = "ReturnError" <=>
                  \/ monSig.type = "None"
                  \/ monSig.type = "Line" /\ faults' # faults
            /\ monPc' = IF monFlow' = "Continue" THEN "await" ELSE "done"]_vars

\* A Resume whose clear_and_render or flush failed still returned Continue: the
\* monitor is back at its select! after the one failed terminal operation.
ContinueAfterFailedDrain ==
    /\ monFlow = "Continue"
    /\ monPc = "await"
    /\ faults = 1
    /\ life = "alive"
    /\ ctlSent = 1
    /\ nextLine = 1
    /\ keys = <<>>
    /\ ~paused

====
